---- MODULE Spec2Model ----
(***************************************************************************)
(* A model of the pyeasylib helper library.  The library is a collection  *)
(* of independent utilities, so the module holds one group of variables   *)
(* and one specification per utility family:                              *)
(*   SpecTable  pdlib/pd_functions.py  header-row inference               *)
(*   SpecDate   base_datetime.py       date-format validation             *)
(*   SpecDb     dblib/pymssql.py       the database client wrapper        *)
(*   SpecFile   base.py, excellib      the file and spreadsheet helpers   *)
(*   SpecFolder excellib               the conversion of a whole folder   *)
(*   SpecBase   base.py, base_datetime list, month and duplicate helpers  *)
(*   SpecCreate base.py                the creation of folders            *)
(* Every specification leaves the variables of the other families idle.   *)
(***************************************************************************)
EXTENDS Integers, Sequences, FiniteSets, TLC

VARIABLES
    df0,        \* pdlib: the raw grid, a sequence of rows (sequences of cells)
    df0_index,  \* pdlib: df0.index, one label per row
    pd_call,    \* pdlib: the call made and its arguments
    pd_ret,     \* pdlib: what the call returned or raised
    date_series,  \* base_datetime: the object-typed series handed in
    date_format,  \* base_datetime: the date_format argument
    dt_ret,       \* base_datetime: "pending", or the exception raised, or "none"
    db_sent,    \* dblib: the executions handed to the database, in order
    db_log,     \* dblib: the messages logged at info or error level
    db_call,    \* dblib: the method called, its arguments, where the database fails
    db_ret,     \* dblib: "pending", "returned", or the exception raised
    fs,         \* files: the absolute paths that exist, with their content
    dirs,       \* files: the folders that exist
    now,        \* files: the clock, in seconds
    excel_log,  \* files: the calls made to the spreadsheet application
    fs_call,    \* files: the call made, its arguments, the state it started in
    fs_ret,     \* files: what the call returned or raised
    base_call,  \* base: the function called and its arguments
    base_ret,   \* base: "pending", or what the call raised and returned
    tree,       \* folders: the folders and files below the working directory
    cf_call,    \* folders: the call made, its arguments, the tree it started in
    cf_ret      \* folders: what the call raised and returned

pdVars == <<df0, df0_index, pd_call, pd_ret>>

dtVars == <<date_series, date_format, dt_ret>>

dbVars == <<db_sent, db_log, db_call, db_ret>>

fileVars == <<fs, dirs, now, excel_log, fs_call, fs_ret>>

baseVars == <<base_call, base_ret>>

createVars == <<tree, cf_call, cf_ret>>

vars == <<pdVars, dtVars, dbVars, fileVars, baseVars, createVars>>

(***************************************************************************)
(* Helpers shared by the families.                                         *)
(***************************************************************************)

\* set(list)
SetOf(seq) == {seq[k] : k \in DOMAIN seq}

\* the positions 1..n as a sequence
Indices(n) == [k \in 1..n |-> k]

RECURSIVE Flatten(_)
\* the concatenation of a sequence of sequences
Flatten(seqs) ==
    IF Len(seqs) = 0 THEN <<>> ELSE Head(seqs) \o Flatten(Tail(seqs))

(***************************************************************************)
(* pdlib/pd_functions.py: header-row inference.                            *)
(***************************************************************************)

\* numpy.nan, the null cell
Null == "nan"

\* bounds of the grids explored
MaxRows == 3

\* the grids explored have two columns
GridColumns == 1..2

CellValues == {"a", "b", Null}
GridRows == [GridColumns -> CellValues]
Grids == UNION {[1..r -> GridRows] : r \in 0..MaxRows}

\* df0.index: the default RangeIndex, or custom labels in descending order
IndexChoices(n) == {[i \in 1..n |-> i - 1], [i \in 1..n |-> 10 * (n - i + 1)]}

\* the expected_data / expected_header_columns lists tried
ExpectedChoices == {<<"a">>, <<"b">>, <<"a", "b">>, <<"b", "a">>, <<"a", "a">>}

\* expected_data_set.intersection(values)
Intersection(expected_data_set, values) ==
    {v \in expected_data_set : \E j \in DOMAIN values : values[j] = v}

\* a row test that accepts a row holding only some of the expected values
RowMatchesAny(expected_data_set, values) ==
    Intersection(expected_data_set, values) # {}

\* if intersection == expected_data_set
RowMatches(expected_data_set, values) ==
    Intersection(expected_data_set, values) = expected_data_set

\* a scan that stops at the first matching row
ScanRowsFirstOnly(df, expected_data_set, i, iloc_list) ==
    LET hits == {n \in 1..Len(df) : RowMatches(expected_data_set, df[n])}
    IN  IF hits = {} THEN <<>>
        ELSE <<(CHOOSE n \in hits : \A m \in hits : n <= m) - 1>>

RECURSIVE ScanRows(_, _, _, _)
\* for i in range(df0.shape[0]): ... iloc_list.append(i)    (i is 0-based)
ScanRows(df, expected_data_set, i, iloc_list) ==
    IF i >= Len(df) THEN iloc_list
    ELSE ScanRows(df, expected_data_set, i + 1,
                  IF RowMatches(expected_data_set, df[i + 1])
                  THEN Append(iloc_list, i) ELSE iloc_list)

\* get_expected_data_row_locations(df0, expected_data, return_index)
get_expected_data_row_locations(df, index, expected_data, return_index) ==
    LET expected_data_set == SetOf(expected_data)
        iloc_list == ScanRows(df, expected_data_set, 0, <<>>)
    IN  IF Len(iloc_list) = 0
        THEN [raised |-> "Exception", value |-> <<>>]
        ELSE [raised |-> "none",
              value |-> IF return_index
                        THEN [k \in DOMAIN iloc_list |-> index[iloc_list[k] + 1]]
                        ELSE iloc_list]

\* the positions of the columns labelled name, in column order
ColumnPositions(columns, name) ==
    SelectSeq(Indices(Len(columns)), LAMBDA j : columns[j] = name)

\* df.dropna(subset = expected_header_columns, how = 'all'): keep a row when
\* some cell under a subset column is not null
DropnaKeeps(columns, subset, cells) ==
    \E j \in DOMAIN columns : columns[j] \in SetOf(subset) /\ cells[j] # Null

\* df[expected_header_columns]: per listed label, every column carrying it
SelectColumns(columns, wanted) ==
    Flatten([k \in DOMAIN wanted |-> ColumnPositions(columns, wanted[k])])

\* a header choice that takes the last match instead of the first
HeaderIdxLast(iloc_list) == iloc_list[Len(iloc_list)]

\* header_idx = get_expected_data_row_locations(...)[0]
HeaderIdx(iloc_list) == iloc_list[1]

\* get_main_table_from_df(df0, expected_header_columns,
\*     return_only_expected_header_columns, drop_null_rows_for_header_columns)
\* A data row keeps the position (iloc) it had in df0.
get_main_table_from_df(df, expected_header_columns, return_only, drop_null) ==
    LET loc == get_expected_data_row_locations(
                   df, Indices(Len(df)), expected_header_columns, FALSE)
    IN  IF loc.raised # "none"
        THEN [raised |-> loc.raised, columns |-> <<>>, rows |-> <<>>]
        ELSE
        LET header_idx == HeaderIdx(loc.value)
            columns == df[header_idx + 1]
            sliced == [k \in 1..(Len(df) - (header_idx + 1)) |->
                          [iloc |-> header_idx + k, cells |-> df[header_idx + 1 + k]]]
            dropped == IF drop_null
                       THEN SelectSeq(sliced, LAMBDA r :
                                DropnaKeeps(columns, expected_header_columns, r.cells))
                       ELSE sliced
            keep == SelectColumns(columns, expected_header_columns)
        IN  IF return_only
            THEN [raised |-> "none",
                  columns |-> [k \in DOMAIN keep |-> columns[keep[k]]],
                  rows |-> [n \in DOMAIN dropped |->
                               [iloc |-> dropped[n].iloc,
                                cells |-> [k \in DOMAIN keep |-> dropped[n].cells[keep[k]]]]]]
            ELSE [raised |-> "none", columns |-> columns, rows |-> dropped]

(***************************************************************************)
(* base_datetime.py: ensure_correct_date_format.  A string is a sequence   *)
(* of one-character strings, so that the regular expression of the code    *)
(* is run on the characters of each value.                                 *)
(***************************************************************************)

\* calendar.month_abbr[1..12]: the keys of MONTH_ABBR_TO_NUMBER, whose value
\* is the position in the list
MONTH_ABBR ==
    << <<"J", "a", "n">>,
      <<"F", "e", "b">>,
      <<"M", "a", "r">>,
      <<"A", "p", "r">>,
      <<"M", "a", "y">>,
      <<"J", "u", "n">>,
      <<"J", "u", "l">>,
      <<"A", "u", "g">>,
      <<"S", "e", "p">>,
      <<"O", "c", "t">>,
      <<"N", "o", "v">>,
      <<"D", "e", "c">> >>

\* calendar.month_name[1..12]: the keys of MONTH_NAME_TO_NUMBER
MONTH_NAME ==
    << <<"J", "a", "n", "u", "a", "r", "y">>,
      <<"F", "e", "b", "r", "u", "a", "r", "y">>,
      <<"M", "a", "r", "c", "h">>,
      <<"A", "p", "r", "i", "l">>,
      <<"M", "a", "y">>,
      <<"J", "u", "n", "e">>,
      <<"J", "u", "l", "y">>,
      <<"A", "u", "g", "u", "s", "t">>,
      <<"S", "e", "p", "t", "e", "m", "b", "e", "r">>,
      <<"O", "c", "t", "o", "b", "e", "r">>,
      <<"N", "o", "v", "e", "m", "b", "e", "r">>,
      <<"D", "e", "c", "e", "m", "b", "e", "r">> >>

LowerLetters ==
    <<"a", "b", "c", "d", "e", "f", "g", "h", "i", "j", "k", "l", "m", "n", "o", "p", "q", "r", "s", "t", "u", "v", "w", "x", "y", "z">>

UpperLetters ==
    <<"A", "B", "C", "D", "E", "F", "G", "H", "I", "J", "K", "L", "M", "N", "O", "P", "Q", "R", "S", "T", "U", "V", "W", "X", "Y", "Z">>

Digits == <<"0", "1", "2", "3", "4", "5", "6", "7", "8", "9">>

LowerSet == SetOf(LowerLetters)

UpperSet == SetOf(UpperLetters)

DigitSet == SetOf(Digits)

IsLetter(c) == c \in LowerSet \cup UpperSet

IsDigit(c) == c \in DigitSet

\* str.lower() of the upper-case letters
LowerMap ==
    [c \in UpperSet |->
        LowerLetters[CHOOSE i \in DOMAIN UpperLetters : UpperLetters[i] = c]]

\* str.upper() of the lower-case letters
UpperMap ==
    [c \in LowerSet |->
        UpperLetters[CHOOSE i \in DOMAIN LowerLetters : LowerLetters[i] = c]]

\* str.lower() of one character
LowerOf(c) == IF c \in UpperSet THEN LowerMap[c] ELSE c

\* str.upper() of one character
UpperOf(c) == IF c \in LowerSet THEN UpperMap[c] ELSE c

\* the regular expression's delimiter class [\-/. ]
IsDelimiter(c) == c \in {"-", "/", ".", " "}

\* value of a string of digits
RECURSIVE DigitsValue(_)
DigitsValue(s) ==
    IF Len(s) = 0 THEN 0
    ELSE 10 * DigitsValue(SubSeq(s, 1, Len(s) - 1))
         + ((CHOOSE i \in DOMAIN Digits : Digits[i] = s[Len(s)]) - 1)

IsDigitString(s) == Len(s) > 0 /\ \A k \in DOMAIN s : IsDigit(s[k])

\* the cells of yr_mth_day_df: a string, a number, or NaN
StrCell(s) == [kind |-> "str", s |-> s, n |-> 0]
IntCell(n) == [kind |-> "int", s |-> <<>>, n |-> n]
NaNCell == [kind |-> "nan", s |-> <<>>, n |-> 0]

\* (?i): the word w is read at position p of s, whatever the case
WordAt(s, p, w) ==
    /\ p + Len(w) - 1 <= Len(s)
    /\ \A k \in DOMAIN w : LowerOf(s[p + k - 1]) = LowerOf(w[k])

\* [0-9]{n} is read at position p of s
DigitsAt(s, p, n) ==
    /\ p + n - 1 <= Len(s)
    /\ \A k \in 1..n : IsDigit(s[p + k - 1])

\* regex_mth = '|'.join(MONTH_ABBR) + '|' + '|'.join(MONTH_NAME)
RegexMth == MONTH_ABBR \o MONTH_NAME

\* [0-9]{1,4} is greedy: the lengths tried, longest first
DigitLengths == <<4, 3, 2, 1>>

\* the lengths the group [0-9]{1,4} can take at p, in the order tried
DigitGroupLengths(s, p) ==
    SelectSeq(DigitLengths, LAMBDA n : DigitsAt(s, p, n))

\* the lengths the group (regex_mth|[0-9]{1,4}) can take at p, in the order
\* the alternation tries them
MonthOrDigitGroupLengths(s, p) ==
    LET words == SelectSeq(RegexMth, LAMBDA w : WordAt(s, p, w))
    IN  [k \in DOMAIN words |-> Len(words[k])] \o DigitGroupLengths(s, p)

\* [\-/. ]? is greedy: one delimiter if there is one, else none
DelimiterLengths(s, p) ==
    IF p <= Len(s) /\ IsDelimiter(s[p]) THEN <<1, 0>> ELSE <<0>>

\* the lengths the pattern's element can take at p, in the order tried; the
\* elements are 1: (regex_mth|[0-9]{1,4})  2: [\-/. ]?  3: (regex_mth|[0-9]{1,4})
\* 4: [\-/. ]?  5: ([0-9]{1,4})
ElementLengths(s, p, element) ==
    IF element \in {1, 3} THEN MonthOrDigitGroupLengths(s, p)
    ELSE IF element \in {2, 4} THEN DelimiterLengths(s, p)
    ELSE DigitGroupLengths(s, p)

RECURSIVE MatchFrom(_, _, _, _)
RECURSIVE TryLengths(_, _, _, _, _, _)
\* the first way, in backtracking order, the pattern's elements from the given
\* one on match s at p; acc holds <<start, length>> of the elements matched so
\* far; <<>> when there is no way
MatchFrom(s, p, element, acc) ==
    IF element > 5 THEN acc
    ELSE TryLengths(s, p, element, acc, ElementLengths(s, p, element), 1)

\* the i-th length of the element, and on failure of the rest the next one
TryLengths(s, p, element, acc, lengths, i) ==
    IF i > Len(lengths) THEN <<>>
    ELSE LET rest == MatchFrom(s, p + lengths[i], element + 1,
                               Append(acc, <<p, lengths[i]>>))
         IN  IF rest # <<>> THEN rest
             ELSE TryLengths(s, p, element, acc, lengths, i + 1)

RECURSIVE Search(_, _)
\* re.search: the match at the leftmost start that has one
Search(s, p) ==
    IF p > Len(s) THEN <<>>
    ELSE LET m == MatchFrom(s, p, 1, <<>>)
         IN  IF m # <<>> THEN m ELSE Search(s, p + 1)

\* the text of a matched element
GroupText(s, g) == StrCell(SubSeq(s, g[1], g[1] + g[2] - 1))

\* Series.str.extract(regex_pat) on one value: the three groups of the match,
\* NaN in the three columns when nothing matches
Extract(s) ==
    LET m == Search(s, 1)
    IN  IF m = <<>> THEN <<NaNCell, NaNCell, NaNCell>>
        ELSE [k \in 1..3 |-> GroupText(s, m[2 * k - 1])]

\* the fields the date strings are built from: f1-f2-f3
Field1 == {<<"5">>, <<"3", "1">>, <<"2", "0", "2", "0">>, <<"M", "a", "y">>}
Field2 == {<<"5">>, <<"1", "3">>, <<"M", "a", "y">>, <<"m", "a", "y">>,
           <<"J", "u", "n", "e">>}
Field3 == {<<"5">>, <<"2", "0", "2", "0">>, <<"1", "0", "0", "0", "0">>}

DateStrings ==
    {f1 \o <<"-">> \o f2 \o <<"-">> \o f3 : f1 \in Field1, f2 \in Field2, f3 \in Field3}

\* None / numpy.nan in a series
None == <<"None">>

RECURSIVE DropDuplicates(_, _)
\* date_series.dropna().drop_duplicates()
DropDuplicates(series, seen) ==
    IF Len(series) = 0 THEN <<>>
    ELSE IF Head(series) = None \/ Head(series) \in seen
         THEN DropDuplicates(Tail(series), seen)
         ELSE <<Head(series)>> \o DropDuplicates(Tail(series), seen \cup {Head(series)})

\* yr_mth_day_df.rename(columns = ...): the extracted columns 0, 1, 2 named
\* after the date format
RenameColumns(cells, fmt) ==
    IF fmt = "ymd" THEN [yr |-> cells[1], mth |-> cells[2], day |-> cells[3]]
    ELSE IF fmt = "mdy" THEN [mth |-> cells[1], day |-> cells[2], yr |-> cells[3]]
    ELSE [day |-> cells[1], mth |-> cells[2], yr |-> cells[3]]

\* yr_mth_day_df.columns.get_loc('day')
DayColumn(fmt) ==
    IF fmt = "ymd" THEN 2 ELSE IF fmt = "mdy" THEN 1 ELSE 0

\* str.title() of one string: a letter after a non-letter in upper case, a
\* letter after a letter in lower case
Title(s) ==
    [k \in DOMAIN s |->
        IF ~IsLetter(s[k]) THEN s[k]
        ELSE IF k > 1 /\ IsLetter(s[k - 1]) THEN LowerOf(s[k]) ELSE UpperOf(s[k])]

\* Series.str.title() on one cell
TitleCell(c) == IF c.kind = "str" THEN StrCell(Title(c.s)) ELSE c

\* Series.isin(words) on one cell
CellIsIn(c, words) == c.kind = "str" /\ c.s \in SetOf(words)

\* Series.replace(MONTH_..._TO_NUMBER) on one cell
ReplaceMonth(c, words) ==
    IF CellIsIn(c, words)
    THEN IntCell(CHOOSE i \in DOMAIN words : words[i] = c.s)
    ELSE c

\* if all_month_abbr_ind.any(): replace abbreviations
\* elif all_month_name_ind.any(): replace full names
MonthToNumber(mths) ==
    IF \E k \in DOMAIN mths : CellIsIn(mths[k], MONTH_ABBR)
    THEN [k \in DOMAIN mths |-> ReplaceMonth(mths[k], MONTH_ABBR)]
    ELSE IF \E k \in DOMAIN mths : CellIsIn(mths[k], MONTH_NAME)
    THEN [k \in DOMAIN mths |-> ReplaceMonth(mths[k], MONTH_NAME)]
    ELSE mths

\* pd.to_numeric(errors = 'raise') fails on this cell
NotNumeric(c) == c.kind = "str" /\ ~IsDigitString(c.s)

\* pd.to_numeric on one cell that parses
ToNumeric(c) == IF c.kind = "str" THEN IntCell(DigitsValue(c.s)) ELSE c

\* (x >= lo) & (x <= hi); a comparison with NaN is False
Between(c, lo, hi) == c.kind = "int" /\ c.n >= lo /\ c.n <= hi

\* yr_mth_day_df = unique_date_series.str.extract(regex_pat).rename(...)
ExtractFrame(unique_date_series, fmt) ==
    [k \in DOMAIN unique_date_series |->
        RenameColumns(Extract(unique_date_series[k]), fmt)]

\* yr_mth_day_df['mth'] title-cased, then its month words replaced by numbers
WithMonthNumbers(frame) ==
    LET mth == MonthToNumber([k \in DOMAIN frame |-> TitleCell(frame[k].mth)])
    IN  [k \in DOMAIN frame |-> [frame[k] EXCEPT !.mth = mth[k]]]

\* day_is_mth_ind.all()
DayIsMonthAll(frame) ==
    \A k \in DOMAIN frame : CellIsIn(frame[k].day, MONTH_NAME \o MONTH_ABBR)

\* yr_mth_day_df.apply(pd.to_numeric) raises
ToNumericRaises(frame) ==
    \E k \in DOMAIN frame :
        NotNumeric(frame[k].day) \/ NotNumeric(frame[k].mth) \/ NotNumeric(frame[k].yr)

\* day_criteria, month_criteria and yr_criteria hold on every row
CriteriaAll(frame) ==
    \A k \in DOMAIN frame :
        /\ Between(ToNumeric(frame[k].day), 1, 31)
        /\ Between(ToNumeric(frame[k].mth), 1, 12)
        /\ Between(ToNumeric(frame[k].yr), 0, 9999)

\* the checks on yr_mth_day_df, col_id being the position of its day column
CheckFrame(frame, col_id) ==
    IF DayIsMonthAll(frame) /\ col_id \in {0, 1} THEN "Exception"
    ELSE IF ToNumericRaises(frame) THEN "ValueError"
    ELSE IF CriteriaAll(frame) THEN "none"
    ELSE "Exception"

\* ensure_correct_date_format(date_series, date_format) for an object-typed
\* series and the default delimiter = None: the exception raised, or "none"
ensure_correct_date_format(series, fmt) ==
    IF fmt \notin {"ymd", "mdy", "dmy"} THEN "NotImplementedError"
    ELSE CheckFrame(WithMonthNumbers(ExtractFrame(DropDuplicates(series, {}), fmt)),
                    DayColumn(fmt))

(***************************************************************************)
(* dblib/pymssql.py: the PyMsSQL write and read methods.  A method is an   *)
(* operator from its arguments and from the place where the database       *)
(* fails (fail_at: the number of the execution that raises, 0 for none) to *)
(* its effect: the executions that reached the database, the messages      *)
(* logged and how the method ended.                                        *)
(***************************************************************************)

\* "If query is longer than 300 statements, do it repeatedly"
BatchSize == 300

\* one execution handed to the database: the statements query_lst[lo:hi] of
\* the kind stmt, and whether the database carried it out
Execution(stmt, lo, hi, ok) == [stmt |-> stmt, lo |-> lo, hi |-> hi, ok |-> ok]

Effect(sent, log, ret) == [sent |-> sent, log |-> log, ret |-> ret]

\* the exception a failing execute_query raises
DBError == "DBAPIError"

\* update: the slices of query_lst in query_lst_by_300.  rep full slices, then
\* query_lst[-remainder:], which is the whole list when remainder is 0
UpdateBatches(n) ==
    LET rep == n \div BatchSize
        remainder == n % BatchSize
    IN  [i \in 1..rep |-> [lo |-> (i - 1) * BatchSize, hi |-> i * BatchSize]]
        \o << [lo |-> IF remainder = 0 THEN 0 ELSE n - remainder, hi |-> n] >>

\* an update loop that goes on with the next batch after a failure
UpdateLoopContinue(batches, k, fail_at, acc) ==
    Effect(acc.sent \o [j \in 1..Len(batches) |->
                           Execution("UPDATE", batches[j].lo, batches[j].hi, j # fail_at)],
           acc.log \o [j \in 1..Len(batches) |->
                           IF j = fail_at THEN "error: Failed to update"
                           ELSE "info: Successfully updated"],
           "returned")

RECURSIVE UpdateLoop(_, _, _, _)
\* try: for query in query_lst_by_300: self.execute_query(query); logger.info
\* except: logger.error
UpdateLoop(batches, k, fail_at, acc) ==
    IF k > Len(batches) THEN acc
    ELSE IF k = fail_at
    THEN Effect(Append(acc.sent, Execution("UPDATE", batches[k].lo, batches[k].hi, FALSE)),
                Append(acc.log, "error: Failed to update"),
                "returned")
    ELSE UpdateLoop(batches, k + 1, fail_at,
             Effect(Append(acc.sent, Execution("UPDATE", batches[k].lo, batches[k].hi, TRUE)),
                    Append(acc.log, "info: Successfully updated"),
                    "returned"))

\* an update check that executes whatever the identifier columns are
UpdateRejectsNever(id_cols, keys) == FALSE

\* update: not isinstance(id_cols, list), or not id_cols_set.issubset(data.keys())
\* (id_cols.is_list: whether the argument is a list; id_cols.cols: its items)
UpdateRejects(id_cols, keys) ==
    \/ ~id_cols.is_list
    \/ ~(SetOf(id_cols.cols) \subseteq keys)

\* PyMsSQL.update(table_name, id_cols, data): data has the columns keys and
\* nrows rows
update(id_cols, keys, nrows, fail_at) ==
    IF UpdateRejects(id_cols, keys)
    THEN Effect(<<>>, <<"error: update arguments">>, "Exception")
    ELSE UpdateLoop(UpdateBatches(nrows), 1, fail_at, Effect(<<>>, <<>>, "returned"))

\* delete: try: execute_query(query); count_table_nrows; logger.info
\* except: logger.error
DeleteTry(nrows, fail_at) ==
    IF fail_at = 2
    THEN Effect(<<Execution("DELETE", 0, nrows, FALSE)>>,
                <<"error: Failed to delete">>, "returned")
    ELSE IF fail_at = 3
    THEN Effect(<<Execution("DELETE", 0, nrows, TRUE), Execution("SELECT COUNT", 0, 0, FALSE)>>,
                <<"error: Failed to delete">>, "returned")
    ELSE Effect(<<Execution("DELETE", 0, nrows, TRUE), Execution("SELECT COUNT", 0, 0, TRUE)>>,
                <<"info: Successfully deleted">>, "returned")

\* delete: not id_cols, or not id_cols_set.issubset(df.columns)
DeleteRejects(id_cols, columns) ==
    \/ Len(id_cols) = 0
    \/ ~(SetOf(id_cols) \subseteq columns)

\* PyMsSQL.delete(table_name, id_cols, df): df has the columns given and
\* nrows rows; the row count before the deletion is taken outside the try
delete(id_cols, columns, nrows, fail_at) ==
    IF DeleteRejects(id_cols, columns)
    THEN Effect(<<>>, <<"error: delete arguments">>, "Exception")
    ELSE IF fail_at = 1
    THEN Effect(<<Execution("SELECT COUNT", 0, 0, FALSE)>>, <<>>, DBError)
    ELSE LET t == DeleteTry(nrows, fail_at)
         IN  Effect(<<Execution("SELECT COUNT", 0, 0, TRUE)>> \o t.sent, t.log, t.ret)

\* PyMsSQL.insert_dataframe(table_name, df)
insert_dataframe(nrows, fail_at) ==
    IF fail_at = 1
    THEN Effect(<<Execution("to_sql", 0, nrows, FALSE)>>,
                <<"error: Failed to insert dataframe">>, "Exception")
    ELSE Effect(<<Execution("to_sql", 0, nrows, TRUE)>>,
                <<"info: Successfully executed insertion">>, "returned")

\* create_table: COLUMN or TYPE is missing from structure_df.columns
CreateTableRejects(columns) == {"COLUMN", "TYPE"} \ columns # {}

\* PyMsSQL.create_table(table_name, structure_df)
create_table(columns, fail_at) ==
    IF CreateTableRejects(columns)
    THEN Effect(<<>>, <<"error: Missing columns">>, "Exception")
    ELSE IF fail_at = 1
    THEN Effect(<<Execution("CREATE TABLE", 0, 1, FALSE)>>, <<>>, DBError)
    ELSE Effect(<<Execution("CREATE TABLE", 0, 1, TRUE)>>, <<"info: Created table">>, "returned")

\* read_table: table_name and query are both None, or both given
ReadTableRejects(has_table_name, has_query) == has_table_name = has_query

\* PyMsSQL.read_table(table_name, query), column_subset = None
read_table(has_table_name, has_query, fail_at) ==
    IF ReadTableRejects(has_table_name, has_query)
    THEN Effect(<<>>, <<"error: table_name and query">>, "Exception")
    ELSE IF fail_at = 1
    THEN Effect(<<Execution("SELECT", 0, 1, FALSE)>>, <<>>, DBError)
    ELSE Effect(<<Execution("SELECT", 0, 1, TRUE)>>, <<>>, "returned")

(***************************************************************************)
(* base.py check_filepath and excellib: the helpers that work on files and *)
(* drive the spreadsheet application.  A path is a directory and a file    *)
(* name, the name a sequence of tokens ("data", ".xlsx", ...), so that     *)
(* names built by concatenation can meet names that are already there.     *)
(* The filesystem maps the absolute paths that exist to their content; the *)
(* functions run on Windows (win32com), whose os.rename refuses an         *)
(* existing destination.                                                   *)
(***************************************************************************)

\* the last second of the clock that is modelled
MaxTime == 2

\* time.strftime("%Y%m%d%H%M%S") at the seconds of the clock
TimeStamps ==
    <<"20240101000001", "20240101000002", "20240101000003", "20240101000004">>

\* get_current_datetime() when the clock reads t
get_current_datetime(t) == TimeStamps[t]

Path(dir, name) == [dir |-> dir, name |-> name]

NoPath == Path("", <<>>)

\* os.getcwd()
CWD == "cwd"

\* os.path.abspath on a directory: "" and "bak" are relative to os.getcwd()
AbsDir(dir) ==
    IF dir = "" THEN CWD ELSE IF dir = "bak" THEN "cwd/bak" ELSE dir

\* os.path.abspath(path)
abspath(path) == Path(AbsDir(path.dir), path.name)

\* os.path.exists(path)
path_exists(files, path) == abspath(path) \in DOMAIN files

\* the extensions of the file names in use
Extensions == {".xls", ".xlsx", ".xlsbak", ".del"}

\* os.path.splitext(file_name_ext)
splitext(name) ==
    IF Len(name) > 1 /\ name[Len(name)] \in Extensions
    THEN [root |-> SubSeq(name, 1, Len(name) - 1), ext |-> <<name[Len(name)]>>]
    ELSE [root |-> name, ext |-> <<>>]

\* what check_filepath hands back: the path, and the clock when it returns
\* (found is FALSE when the clock left the modelled seconds)
PathFound(found, fp, t) == [found |-> found, fp |-> fp, now |-> t]

\* a loop that takes the first timestamped name without looking at the
\* filesystem
CheckFilepathNoCheck(files, dirname, file_name, file_ext, t) ==
    PathFound(TRUE,
              Path(dirname, file_name \o <<"_", get_current_datetime(t)>> \o file_ext),
              t)

RECURSIVE CheckFilepathLoop(_, _, _, _, _)
\* while True: new_fp from the current timestamp; returned when it does not
\* exist, else the clock is read again
CheckFilepathLoop(files, dirname, file_name, file_ext, t) ==
    IF t > MaxTime THEN PathFound(FALSE, NoPath, t)
    ELSE IF path_exists(files, Path(dirname,
                file_name \o <<"_", get_current_datetime(t)>> \o file_ext))
         THEN CheckFilepathLoop(files, dirname, file_name, file_ext, t + 1)
         ELSE PathFound(TRUE,
                        Path(dirname,
                             file_name \o <<"_", get_current_datetime(t)>> \o file_ext),
                        t)

\* check_filepath(fp) on the filesystem files when the clock reads t
check_filepath(files, t, fp) ==
    IF ~path_exists(files, fp) THEN PathFound(TRUE, fp, t)
    ELSE CheckFilepathLoop(files,
                           IF fp.dir = "" THEN CWD ELSE fp.dir,
                           splitext(fp.name).root, splitext(fp.name).ext, t)

\* content of a file
Content(kind, origin) == [kind |-> kind, origin |-> origin]

\* a file is written at path
WriteFile(files, path, content) ==
    [p \in DOMAIN files \cup {path} |-> IF p = path THEN content ELSE files[p]]

\* os.remove(path)
RemoveFile(files, path) == [p \in DOMAIN files \ {path} |-> files[p]]

\* os.rename / shutil.move onto a destination that does not exist
MoveFile(files, src, dst) == WriteFile(RemoveFile(files, src), dst, files[src])

(***************************************************************************)
(* base.py create_folder and create_folder_for_filepath.  A folder path is *)
(* a sequence of names below the working directory, a name a sequence of   *)
(* tokens; the tree holds the paths that are folders, the paths that are   *)
(* files, and the clock.                                                   *)
(***************************************************************************)

Tree(folders, files, t) == [folders |-> folders, files |-> files, now |-> t]

\* os.path.split(folderpath)[0]
ParentPath(path) == SubSeq(path, 1, Len(path) - 1)

\* os.path.exists(folderpath): a folder or a file is there
tree_exists(folder_tree, path) == path \in folder_tree.folders \cup folder_tree.files

\* len(os.listdir(folderpath)) > 0
HasContent(folder_tree, path) ==
    \E q \in folder_tree.folders \cup folder_tree.files :
        Len(q) = Len(path) + 1 /\ ParentPath(q) = path

\* "%s_%s" % (folderpath, get_current_datetime())
AlternatePath(path, t) ==
    [path EXCEPT ![Len(path)] = @ \o <<"_", get_current_datetime(t)>>]

\* how create_folder ends: the tree it leaves, the exception raised, the
\* folderpath returned
Created(folder_tree, path) == [tree |-> folder_tree, raised |-> "none", value |-> path]

CreateRaised(folder_tree, exception) == [tree |-> folder_tree, raised |-> exception, value |-> <<>>]

\* the second of two steps, when the first one did not raise
Then(first, second) == IF first.raised # "none" THEN first ELSE second

\* the value of a recursive create_folder call is dropped and folderpath
\* returned
ReturnPath(inner, folderpath) ==
    IF inner.raised # "none" THEN inner ELSE Created(inner.tree, folderpath)

RECURSIVE create_folder(_, _, _)
\* create_folder(folderpath, alternate_if_exists)
create_folder(folder_tree, folderpath, alternate_if_exists) ==
    IF ~tree_exists(folder_tree, folderpath)
    THEN IF Len(folderpath) = 0
         \* os.mkdir("") fails, its parent is "" again: the recursion has no end
         THEN CreateRaised(folder_tree, "RecursionError")
         ELSE IF Len(folderpath) = 1 \/ ParentPath(folderpath) \in folder_tree.folders
         \* os.mkdir(folderpath)
         THEN Created([folder_tree EXCEPT !.folders = @ \cup {folderpath}], folderpath)
         ELSE IF ParentPath(folderpath) \in folder_tree.files
         \* os.mkdir below a file
         THEN CreateRaised(folder_tree, "NotADirectoryError")
         \* except FileNotFoundError: the parent folder, then the folder
         ELSE Then(create_folder(folder_tree, ParentPath(folderpath), alternate_if_exists),
                   ReturnPath(
                       create_folder(
                           create_folder(folder_tree, ParentPath(folderpath),
                                         alternate_if_exists).tree,
                           folderpath, alternate_if_exists),
                       folderpath))
    ELSE IF alternate_if_exists /\ folderpath \in folder_tree.files
    \* os.listdir on a file
    THEN CreateRaised(folder_tree, "NotADirectoryError")
    ELSE IF alternate_if_exists /\ HasContent(folder_tree, folderpath)
    THEN ReturnPath(
             create_folder(folder_tree, AlternatePath(folderpath, folder_tree.now),
                           alternate_if_exists),
             AlternatePath(folderpath, folder_tree.now))
    ELSE Created(folder_tree, folderpath)

\* create_folder_for_filepath(filepath)
create_folder_for_filepath(folder_tree, filepath) ==
    create_folder(folder_tree, ParentPath(filepath), FALSE)

\* a folder of the machine as a path below the working directory
FolderPath(dir) == IF AbsDir(dir) = "cwd/bak" THEN << <<"bak">> >> ELSE <<>>

\* the folders of the machine as a tree below the working directory
TreeOf(folders, t) == Tree({FolderPath(d) : d \in folders \ {CWD}}, {}, t)

\* the folders of the machine a tree stands for
DirsOf(folder_tree) ==
    {CWD} \cup {IF p = << <<"bak">> >> THEN "cwd/bak" ELSE CWD : p \in folder_tree.folders}

\* the machine a call works on: files, folders, clock, and the calls made to
\* the spreadsheet application
Machine(files, folders, t, log) ==
    [fs |-> files, dirs |-> folders, now |-> t, log |-> log]

WithLog(st, events) == [st EXCEPT !.log = @ \o events]

WithFile(st, path, content) == [st EXCEPT !.fs = WriteFile(@, path, content)]

\* the backup_file a conversion returns
Backup(kind, path) == [kind |-> kind, path |-> path]

NoBackup == Backup("None", NoPath)

\* how a call ends: the machine it leaves, the exception raised ("none" when
\* it returns) and the values returned
FileEffect(st, raised, output, backup) ==
    [fs |-> st.fs, dirs |-> st.dirs, now |-> st.now, log |-> st.log,
     raised |-> raised, output |-> output, backup |-> backup]

\* str.lower()
Lower(s) == [k \in DOMAIN s |-> LowerOf(s[k])]

RECURSIVE Strip(_)
\* str.strip()
Strip(s) ==
    IF Len(s) = 0 THEN s
    ELSE IF Head(s) = " " THEN Strip(Tail(s))
    ELSE IF s[Len(s)] = " " THEN Strip(SubSeq(s, 1, Len(s) - 1))
    ELSE s

\* input_file_treatment_options
Keep == <<"k", "e", "e", "p">>
Delete == <<"d", "e", "l", "e", "t", "e">>
RenameExtension ==
    <<"r", "e", "n", "a", "m", "e", "_", "e", "x", "t", "e", "n", "s", "i", "o", "n">>

input_file_treatment_options == {Keep, Delete, RenameExtension}

\* input_file.endswith('.xls')
EndsWithXls(path) == Len(path.name) > 0 /\ path.name[Len(path.name)] = ".xls"

\* re.sub(".xls$", ".xlsx", input_file) on a path that ends with .xls
OutputFile(input_file) ==
    Path(input_file.dir,
         SubSeq(input_file.name, 1, Len(input_file.name) - 1) \o <<".xlsx">>)

\* output_file + f".{current_ts}.del"
DelOutputFile(output_file, t) ==
    Path(output_file.dir,
         output_file.name \o <<".", get_current_datetime(t), ".del">>)

\* the workbook Excel saves from input_file
Workbook(input_file) == Content("workbook", input_file)

\* excel.Quit() in the finally block after an exception in the try block,
\* which leaves as RuntimeError
ConvertFailed(st) ==
    FileEffect(WithLog(st, <<"Quit">>), "RuntimeError", NoPath, NoBackup)

\* the step of the try block: the machine it leaves, the exception it raised
Step(st, raised, backup) == [st |-> st, raised |-> raised, backup |-> backup]

\* a move to the backup file that does not look whether it is there
MoveToBackupUnchecked(st, input_file, backup_file) ==
    Step([st EXCEPT !.fs = MoveFile(@, input_file, abspath(backup_file))],
         "none", Backup("path", backup_file))

\* input_file_treatment == "rename_extension" with the default
\* backup_input_file_ext, after the backup folder was created
MoveToBackup(st, input_file, backup_file) ==
    IF path_exists(st.fs, backup_file)
    THEN Step(st, "FileExistsError", NoBackup)
    ELSE Step([st EXCEPT !.fs = MoveFile(@, input_file, abspath(backup_file))],
              "none", Backup("path", backup_file))

\* the treatment of the original file once the workbook is saved and closed
InputFileTreatment(st, input_file, treatment, backup_folder) ==
    IF treatment = Keep THEN Step(st, "none", Backup("NA", NoPath))
    ELSE IF treatment = Delete
    THEN Step([st EXCEPT !.fs = RemoveFile(@, input_file)], "none",
              Backup("Deleted", NoPath))
    ELSE IF backup_folder = "None"
    THEN MoveToBackup(st, input_file,
                      Path(input_file.dir,
                           splitext(input_file.name).root \o <<".xlsbak">>))
    ELSE MoveToBackup([st EXCEPT !.dirs =
                          DirsOf(create_folder(TreeOf(@, st.now),
                                               FolderPath(backup_folder),
                                               FALSE).tree)],
                      input_file,
                      Path(backup_folder,
                           splitext(input_file.name).root \o <<".xlsbak">>))

\* the end of the try block, and the finally block
ConvertEnd(step, output_file) ==
    IF step.raised # "none" THEN ConvertFailed(step.st)
    ELSE FileEffect(WithLog(step.st, <<"Quit">>), "none", output_file, step.backup)

\* try: Workbooks.Open, SaveAs, Close, the treatment of the input file;
\* fail names the call to Excel that raises ("none": no call does)
ConvertTry(st, input_file, output_file, args, fail) ==
    IF fail = "Open" THEN ConvertFailed(WithLog(st, <<"Open">>))
    ELSE IF fail = "SaveAs" THEN ConvertFailed(WithLog(st, <<"Open", "SaveAs">>))
    ELSE IF fail = "Close"
    THEN ConvertFailed(WithFile(WithLog(st, <<"Open", "SaveAs", "Close">>),
                                output_file, Workbook(input_file)))
    ELSE ConvertEnd(
             InputFileTreatment(
                 WithFile(WithLog(st, <<"Open", "SaveAs", "Close">>),
                          output_file, Workbook(input_file)),
                 input_file, Strip(Lower(args.input_file_treatment)),
                 args.backup_folder),
             output_file)

\* excel = win32.gencache.EnsureDispatch('Excel.Application'), which raises
\* when the application cannot be started, then the try block
ConvertWithExcel(st, input_file, output_file, args, fail) ==
    IF fail = "Dispatch" THEN FileEffect(st, "com_error", NoPath, NoBackup)
    ELSE ConvertTry(WithLog(st, <<"Dispatch">>), input_file, output_file, args, fail)

\* os.remove(output_file) in place of the rename
RemoveExisting(st, output_file, del_output_file) ==
    [st EXCEPT !.fs = RemoveFile(@, output_file)]

\* os.rename(output_file, del_output_file)
RenameExisting(st, output_file, del_output_file) ==
    [st EXCEPT !.fs = MoveFile(@, output_file, del_output_file)]

\* the output file was given a fresh name by check_filepath
ConvertToFresh(st, input_file, fresh, args, fail) ==
    IF ~fresh.found THEN FileEffect(st, "unbounded", NoPath, NoBackup)
    ELSE ConvertWithExcel([st EXCEPT !.now = fresh.now], input_file, fresh.fp,
                          args, fail)

\* "Check if output file is already present", then the conversion
ConvertToOutput(st, input_file, output_file, args, fail) ==
    IF ~path_exists(st.fs, output_file)
    THEN ConvertWithExcel(st, input_file, output_file, args, fail)
    ELSE IF args.replace_existing_output
    THEN IF path_exists(st.fs, DelOutputFile(output_file, st.now))
         THEN FileEffect(st, "FileExistsError", NoPath, NoBackup)
         ELSE ConvertWithExcel(
                  RenameExisting(st, output_file, DelOutputFile(output_file, st.now)),
                  input_file, output_file, args, fail)
    ELSE ConvertToFresh(st, input_file,
                        check_filepath(st.fs, st.now, output_file), args, fail)

\* convert_xls_to_xlsx(input_file, input_file_treatment,
\* replace_existing_output, backup_folder) with the default
\* backup_input_file_ext
convert_xls_to_xlsx(st, args, fail) ==
    IF Strip(Lower(args.input_file_treatment)) \notin input_file_treatment_options
    THEN FileEffect(st, "Exception", NoPath, NoBackup)
    ELSE IF ~path_exists(st.fs, args.input_file)
    THEN FileEffect(st, "FileNotFoundError", NoPath, NoBackup)
    ELSE IF ~EndsWithXls(args.input_file)
    THEN FileEffect(st, "ValueError", NoPath, NoBackup)
    ELSE ConvertToOutput(st, abspath(args.input_file),
                         OutputFile(abspath(args.input_file)), args, fail)

\* f"{name}_formatted{ext}" next to the workbook
FormattedPath(excelfp_abs) ==
    Path(excelfp_abs.dir,
         splitext(excelfp_abs.name).root \o <<"_formatted">>
             \o splitext(excelfp_abs.name).ext)

\* except Exception as e: print(...) -- the call returns
AutofitCaught(st) == FileEffect(st, "none", NoPath, NoBackup)

\* the try block of autofit_win32com after Workbooks.Open was called; opened
\* tells whether it gave a workbook (wb is unbound when it did not)
AutofitWorkbook(st, excelfp_abs, sheetnames, opened, fail) ==
    IF sheetnames \notin {"list", "True"} THEN AutofitCaught(st)
    ELSE IF ~opened THEN AutofitCaught(st)
    ELSE IF fail = "SaveAs" THEN AutofitCaught(WithLog(st, <<"SaveAs">>))
    ELSE IF fail = "Close"
    THEN AutofitCaught(WithFile(WithLog(st, <<"SaveAs", "Close">>),
                                FormattedPath(excelfp_abs), Workbook(excelfp_abs)))
    ELSE FileEffect(WithFile(WithLog(st, <<"SaveAs", "Close", "Quit">>),
                             FormattedPath(excelfp_abs), Workbook(excelfp_abs)),
                    "none", NoPath, NoBackup)

\* ColumnsWidthAdjuster(excelfp).autofit_win32com(sheetnames); sheetnames is
\* None, an empty list, a list of names, True, or a string
autofit_win32com(st, excelfp, sheetnames, fail) ==
    IF sheetnames \in {"None", "empty list"} THEN FileEffect(st, "none", NoPath, NoBackup)
    ELSE IF fail = "Dispatch" THEN AutofitCaught(st)
    ELSE AutofitWorkbook(WithLog(st, <<"Dispatch", "Open">>), abspath(excelfp),
                         sheetnames,
                         fail # "Open" /\ path_exists(st.fs, excelfp),
                         fail)

(***************************************************************************)
(* excellib/file_formats.py convert_xls_to_xlsx_for_folder, with           *)
(* base.py get_filepaths_for_folder.                                       *)
(***************************************************************************)

\* str.lower() on the extensions in use
LowerExtension(ext) == IF ext = ".XLS" THEN ".xls" ELSE ext

\* os.path.splitext(f)[-1].lower()
ExtensionOf(name) ==
    IF Len(name) > 1 /\ LowerExtension(name[Len(name)]) \in Extensions
    THEN LowerExtension(name[Len(name)])
    ELSE ""

\* f.startswith("~"): the temporary files Excel keeps next to an open workbook
IsTempName(name) == Len(name) > 0 /\ name[1] = "~$a"

\* the folder a folder is listed in
ParentDir(dir) == IF dir = "cwd/bak" THEN CWD ELSE ""

RECURSIVE get_filepaths_for_folder(_, _, _, _, _)
\* get_filepaths_for_folder(input_folder, valid_extensions, deep) as a set:
\* the files of the folder that are not temporary and carry a valid
\* extension whatever its case, and with deep those of the folders in it
get_filepaths_for_folder(files, folders, input_folder, valid_extensions, deep) ==
    {Path(input_folder, p.name) :
        p \in {q \in DOMAIN files :
                  /\ q.dir = AbsDir(input_folder)
                  /\ ~IsTempName(q.name)
                  /\ ExtensionOf(q.name) \in valid_extensions}}
    \cup (IF deep
          THEN UNION {get_filepaths_for_folder(files, folders, g, valid_extensions, deep) :
                         g \in {h \in folders : ParentDir(h) = AbsDir(input_folder)}}
          ELSE {})

\* the paths in use in the order sorted() gives their strings
SortedPaths ==
    << Path("bak", <<"a", ".xls">>),
       Path(CWD, <<"C", ".XLS">>),
       Path(CWD, <<"a", ".xls">>),
       Path(CWD, <<"b", ".xls">>),
       Path("cwd/bak", <<"a", ".xls">>) >>

\* sorted(list(set(filepaths)))
Sorted(paths) == SelectSeq(SortedPaths, LAMBDA p : p \in paths)

\* a row of output_df: the Output and Backup columns, NaN until they are set
NaNRow == [set |-> FALSE, Output |-> NoPath, Backup |-> NoBackup]

\* what convert_xls_to_xlsx_for_folder leaves: the machine, the exception
\* raised, output_df, and the input files handed to convert_xls_to_xlsx with
\* the way each call ended
FolderEffect(st, raised, output_df, attempted) ==
    [fs |-> st.fs, dirs |-> st.dirs, now |-> st.now, log |-> st.log,
     raised |-> raised, output_df |-> output_df, attempted |-> attempted]

\* the machine a FileEffect leaves
MachineOf(eff) == Machine(eff.fs, eff.dirs, eff.now, eff.log)

\* output_df.at[input_file, "Output"] = output_file and the same for Backup,
\* when the conversion returned
RowSet(output_df, input_file, eff) ==
    IF eff.raised # "none" THEN output_df
    ELSE [output_df EXCEPT ![input_file] =
             [set |-> TRUE, Output |-> eff.output, Backup |-> eff.backup]]

\* finally: excel = win32.gencache.EnsureDispatch('Excel.Application');
\* excel.Quit() -- EnsureDispatch raises when the application cannot be
\* started
Finally(eff, fail) ==
    IF fail = "Dispatch" THEN [st |-> MachineOf(eff), raised |-> "com_error"]
    ELSE [st |-> WithLog(MachineOf(eff), <<"Dispatch", "Quit">>), raised |-> "none"]

RECURSIVE FolderLoop(_, _, _, _, _, _, _)
RECURSIVE FolderLoopEnd(_, _, _, _, _, _, _, _)
\* for num, input_file in enumerate(input_files, 1): try the conversion,
\* print its error, quit Excel; fails[k] is what goes wrong with Excel for
\* the k-th file
FolderLoop(st, input_files, k, args, fails, output_df, attempted) ==
    IF k > Len(input_files) THEN FolderEffect(st, "none", output_df, attempted)
    ELSE FolderLoopEnd(
             convert_xls_to_xlsx(st,
                 [input_file |-> input_files[k],
                  input_file_treatment |-> args.input_file_treatment,
                  replace_existing_output |-> args.replace_existing_output,
                  backup_folder |-> "None"],
                 fails[k]),
             input_files, k, args, fails, output_df, attempted, st)

\* the except and finally blocks of one pass, then the next pass
FolderLoopEnd(eff, input_files, k, args, fails, output_df, attempted, st) ==
    IF eff.raised = "unbounded" THEN FolderEffect(st, "unbounded", output_df, attempted)
    ELSE IF Finally(eff, fails[k]).raised # "none"
    THEN FolderEffect(Finally(eff, fails[k]).st, Finally(eff, fails[k]).raised,
                      RowSet(output_df, input_files[k], eff),
                      Append(attempted, [input_file |-> input_files[k],
                                         raised |-> eff.raised]))
    ELSE FolderLoop(Finally(eff, fails[k]).st, input_files, k + 1, args, fails,
                    RowSet(output_df, input_files[k], eff),
                    Append(attempted, [input_file |-> input_files[k],
                                       raised |-> eff.raised]))

\* the loop over the files found, which are some
FolderConvert(st, input_files, args, fails) ==
    IF Len(input_files) = 0 THEN FolderEffect(st, "ValueError", <<>>, <<>>)
    ELSE FolderLoop(st, input_files, 1, args, fails,
                    [f \in SetOf(input_files) |-> NaNRow], <<>>)

\* convert_xls_to_xlsx_for_folder(input_folder, input_file_treatment,
\* replace_existing_output, deep) with the default backup_input_file_ext and
\* delay = 0
convert_xls_to_xlsx_for_folder(st, args, fails) ==
    IF AbsDir(args.input_folder) \notin st.dirs
    THEN FolderEffect(st, "FileNotFoundError", <<>>, <<>>)
    ELSE FolderConvert(st,
             Sorted(get_filepaths_for_folder(st.fs, st.dirs, args.input_folder,
                                             {".xls"}, args.deep)),
             args, fails)

(***************************************************************************)
(* base.py and base_datetime.py: pretty_list with summarise_list,          *)
(* compare_two_months with adjust_month, assert_no_duplicates.  A call is  *)
(* an operator from its arguments to the exception raised ("none" when it  *)
(* returns) and the value returned.                                        *)
(***************************************************************************)

Returned(value) == [raised |-> "none", value |-> value]

Raised(exception) == [raised |-> exception, value |-> <<>>]

RECURSIVE IntToStr(_)
\* str(n) for an integer n >= 0
IntToStr(n) ==
    IF n < 10 THEN <<Digits[n + 1]>>
    ELSE IntToStr(n \div 10) \o <<Digits[(n % 10) + 1]>>

\* str(x) for an item of a list
Str(cell) == IF cell.kind = "int" THEN IntToStr(cell.n) ELSE cell.s

RECURSIVE Join(_, _)
\* sep.join(strings)
Join(sep, strings) ==
    IF Len(strings) = 0 THEN <<>>
    ELSE IF Len(strings) = 1 THEN strings[1]
    ELSE strings[1] \o sep \o Join(sep, Tail(strings))

\* summarise_list(inputlist, max_ends, linker); inputlist is the type of the
\* argument and the items it holds
summarise_list(inputlist, max_ends, linker) ==
    IF inputlist.type \notin {"list", "tuple", "set", "ndarray"} THEN Raised("Exception")
    ELSE IF Len(inputlist.items) = 0 THEN Returned(<<>>)
    ELSE IF max_ends <= 0 THEN Raised("Exception")
    ELSE IF Len(inputlist.items) <= max_ends * 2 THEN Returned(inputlist.items)
    ELSE Returned(SubSeq(inputlist.items, 1, max_ends)
                  \o <<StrCell(linker)>>
                  \o SubSeq(inputlist.items, Len(inputlist.items) - max_ends + 1,
                            Len(inputlist.items)))

\* the second part of pretty_list: the condensed list as one string
PrettyString(outputlist, sep, last) ==
    IF Len(outputlist) = 0 THEN <<>>
    ELSE IF Len(outputlist) = 1 THEN outputlist[1]
    ELSE Join(sep, SubSeq(outputlist, 1, Len(outputlist) - 1))
         \o <<" ">> \o last \o <<" ">> \o outputlist[Len(outputlist)]

\* pretty_list continues with what summarise_list gave
PrettyListOf(summary, sep, last) ==
    IF summary.raised # "none" THEN summary
    ELSE Returned(PrettyString([k \in DOMAIN summary.value |-> Str(summary.value[k])],
                               sep, last))

\* pretty_list(inputlist, max_ends, linker, sep, last)
pretty_list(inputlist, max_ends, linker, sep, last) ==
    PrettyListOf(summarise_list(inputlist, max_ends, linker), sep, last)

\* a datetime.date
Date(y, m, d) == [y |-> y, m |-> m, d |-> d]

\* the arguments handed in as months: a month string such as "jan 2020", a
\* date or date string such as "2020-01-15", or a text that is no date
MonthString(y, m) == [kind |-> "month", y |-> y, m |-> m, d |-> 0]
DateString(y, m, d) == [kind |-> "date", y |-> y, m |-> m, d |-> d]
NoDateText == [kind |-> "text", y |-> 0, m |-> 0, d |-> 0]

\* pd.to_datetime(s).date(): a month string gives the first day of its month
to_datetime_date(s) ==
    IF s.kind = "month" THEN Date(s.y, s.m, 1) ELSE Date(s.y, s.m, s.d)

IsLeapYear(y) == (y % 4 = 0 /\ y % 100 # 0) \/ y % 400 = 0

\* calendar.monthrange(y, m)[1]
DaysInMonth(y, m) ==
    IF m = 2 THEN (IF IsLeapYear(y) THEN 29 ELSE 28)
    ELSE IF m \in {4, 6, 9, 11} THEN 30
    ELSE 31

\* d + dateutil.relativedelta.relativedelta(months = delta): the month moved,
\* the day cut down to the length of the month reached
AddMonths(date, delta) ==
    Date((date.y * 12 + (date.m - 1) + delta) \div 12,
         ((date.y * 12 + (date.m - 1) + delta) % 12) + 1,
         IF date.d > DaysInMonth((date.y * 12 + (date.m - 1) + delta) \div 12,
                                 ((date.y * 12 + (date.m - 1) + delta) % 12) + 1)
         THEN DaysInMonth((date.y * 12 + (date.m - 1) + delta) \div 12,
                          ((date.y * 12 + (date.m - 1) + delta) % 12) + 1)
         ELSE date.d)

\* adjust_month(s, delta, strft_fmt = None) with raise_exception = True
adjust_month(s, delta) ==
    IF s.kind = "text" THEN Raised("Exception")
    ELSE Returned(AddMonths(to_datetime_date(s), delta))

\* month1 < month2 on two dates
DateBefore(d1, d2) ==
    \/ d1.y < d2.y
    \/ d1.y = d2.y /\ d1.m < d2.m
    \/ d1.y = d2.y /\ d1.m = d2.m /\ d1.d < d2.d

\* the comparison of compare_two_months on the results of adjust_month
CompareAdjusted(month1, month2) ==
    IF month1.raised # "none" THEN month1
    ELSE IF month2.raised # "none" THEN month2
    ELSE IF DateBefore(month1.value, month2.value) THEN Returned(-1)
    ELSE IF month1.value = month2.value THEN Returned(0)
    ELSE Returned(1)

\* compare_two_months(first_month, second_month)
compare_two_months(first_month, second_month) ==
    CompareAdjusted(adjust_month(first_month, 0), adjust_month(second_month, 0))

\* values.value_counts() and value_counts[value_counts > 1].index.tolist():
\* the values met more than once, NaN left out (dropna = True)
value_with_dup_counts(values) ==
    {values[k] : k \in {j \in DOMAIN values :
                           /\ values[j] # NaNCell
                           /\ \E i \in DOMAIN values : i # j /\ values[i] = values[j]}}

\* __count_and_dup_values__(values) and the test on what it finds; values is
\* a Series or an Index, or a numpy array, which has no value_counts
RaiseIfDuplicates(values_type, values) ==
    IF values_type = "ndarray" THEN Raised("AttributeError")
    ELSE IF value_with_dup_counts(values) # {} THEN Raised("Exception")
    ELSE Returned(<<>>)

\* assert_no_duplicates(data, index, column); data is its type, its index
\* and its values (for a DataFrame the values of its column "c")
assert_no_duplicates(data, index, column) ==
    IF data.type = "DataFrame"
    THEN IF ~index /\ column = "None" THEN Raised("Exception")
         ELSE IF index /\ column # "None" THEN Raised("Exception")
         ELSE IF index THEN RaiseIfDuplicates("Index", data.index)
         ELSE RaiseIfDuplicates("Series", data.values)
    ELSE IF data.type = "Series"
    THEN IF index THEN RaiseIfDuplicates("Index", data.index)
         ELSE RaiseIfDuplicates("ndarray", data.values)
    ELSE IF data.type \in {"list", "tuple", "Index"}
    THEN RaiseIfDuplicates("Series", data.values)
    ELSE Raised("NotImplementedError")

(***************************************************************************)
(* pdlib: the inputs tried and the calls.                                  *)
(***************************************************************************)

NoCall == [fn |-> "none", expected |-> <<>>, return_index |-> FALSE,
           return_only |-> FALSE, drop_null |-> FALSE]

PdIdle ==
    /\ df0 = <<>>
    /\ df0_index = <<>>
    /\ pd_call = NoCall
    /\ pd_ret = [raised |-> "none"]

PdInit ==
    /\ df0 \in Grids
    /\ df0_index \in IndexChoices(Len(df0))
    /\ pd_call = NoCall
    /\ pd_ret = [raised |-> "none"]

CallGetExpectedDataRowLocations ==
    /\ pd_call.fn = "none"
    /\ \E expected \in ExpectedChoices, return_index \in BOOLEAN :
        /\ pd_call' = [NoCall EXCEPT !.fn = "get_expected_data_row_locations",
                                     !.expected = expected,
                                     !.return_index = return_index]
        /\ pd_ret' = get_expected_data_row_locations(
                         df0, df0_index, expected, return_index)
    /\ UNCHANGED <<df0, df0_index>>
    /\ UNCHANGED <<dtVars, dbVars, fileVars, baseVars, createVars>>

CallGetMainTableFromDf ==
    /\ pd_call.fn = "none"
    /\ \E expected \in ExpectedChoices, return_only \in BOOLEAN, drop_null \in BOOLEAN :
        /\ pd_call' = [NoCall EXCEPT !.fn = "get_main_table_from_df",
                                     !.expected = expected,
                                     !.return_only = return_only,
                                     !.drop_null = drop_null]
        /\ pd_ret' = get_main_table_from_df(df0, expected, return_only, drop_null)
    /\ UNCHANGED <<df0, df0_index>>
    /\ UNCHANGED <<dtVars, dbVars, fileVars, baseVars, createVars>>

PdNext == CallGetExpectedDataRowLocations \/ CallGetMainTableFromDf

(***************************************************************************)
(* base_datetime.py: the inputs tried and the call.                        *)
(***************************************************************************)

\* at most this many values in a series
MaxSeries == 2

SeriesChoices ==
    UNION {[1..n -> DateStrings \cup {None}] : n \in 0..MaxSeries}

DtIdle ==
    /\ date_series = <<>>
    /\ date_format = "none"
    /\ dt_ret = "pending"

DtInit ==
    /\ date_series \in SeriesChoices
    /\ date_format \in {"dmy", "mdy", "ymd"}
    /\ dt_ret = "pending"

CallEnsureCorrectDateFormat ==
    /\ dt_ret = "pending"
    /\ dt_ret' = ensure_correct_date_format(date_series, date_format)
    /\ UNCHANGED <<date_series, date_format>>
    /\ UNCHANGED <<pdVars, dbVars, fileVars, baseVars, createVars>>

(***************************************************************************)
(* dblib: the inputs tried and the calls.                                  *)
(***************************************************************************)

\* data / df hold up to this many full batches of rows, and a few more
MaxFullBatches == 2

RowCounts == {k * BatchSize + r : k \in 0..MaxFullBatches, r \in {0, 1}}

\* the id_cols arguments tried: a string instead of a list, the empty list,
\* a column of the data, a column that the data lacks
IdColsChoices ==
    {[is_list |-> FALSE, cols |-> <<"id">>], [is_list |-> TRUE, cols |-> <<>>],
     [is_list |-> TRUE, cols |-> <<"id">>], [is_list |-> TRUE, cols |-> <<"id", "x">>]}

\* the columns of data / df tried
DataColumns == {{"id", "color"}, {"color"}}

\* the columns of structure_df tried
StructureColumns == {{"COLUMN", "TYPE"}, {"COLUMN"}, {"TYPE", "NOTE"}}

NoDbCall ==
    [fn |-> "none", id_cols |-> [is_list |-> TRUE, cols |-> <<>>], columns |-> {},
     nrows |-> 0, has_table_name |-> FALSE, has_query |-> FALSE, fail_at |-> 0,
     sent_before |-> 0, log_before |-> 0]

DbIdle ==
    /\ db_sent = <<>>
    /\ db_log = <<>>
    /\ db_call = NoDbCall
    /\ db_ret = "pending"

\* a connection that is fresh, or that has served one query
DbInit ==
    /\ db_sent \in {<<>>, <<Execution("SELECT", 0, 1, TRUE)>>}
    /\ db_log \in {<<>>, <<"info: Created table">>}
    /\ db_call = NoDbCall
    /\ db_ret = "pending"

\* the call made, with the state of the connection it started from
DbCall(fn) == [NoDbCall EXCEPT !.fn = fn, !.sent_before = Len(db_sent),
                               !.log_before = Len(db_log)]

\* the effect of a method on the connection
DbApply(effect) ==
    /\ db_sent' = db_sent \o effect.sent
    /\ db_log' = db_log \o effect.log
    /\ db_ret' = effect.ret
    /\ UNCHANGED <<pdVars, dtVars, fileVars, baseVars, createVars>>

CallUpdate ==
    /\ db_call.fn = "none"
    /\ \E id_cols \in IdColsChoices, keys \in DataColumns, nrows \in RowCounts :
        \E fail_at \in 0..Len(UpdateBatches(nrows)) :
            /\ db_call' = [DbCall("update") EXCEPT !.id_cols = id_cols, !.columns = keys,
                                                   !.nrows = nrows, !.fail_at = fail_at]
            /\ DbApply(update(id_cols, keys, nrows, fail_at))

CallDelete ==
    /\ db_call.fn = "none"
    /\ \E id_cols \in {c \in IdColsChoices : c.is_list}, columns \in DataColumns,
          nrows \in RowCounts, fail_at \in 0..3 :
            /\ db_call' = [DbCall("delete") EXCEPT !.id_cols = id_cols, !.columns = columns,
                                                   !.nrows = nrows, !.fail_at = fail_at]
            /\ DbApply(delete(id_cols.cols, columns, nrows, fail_at))

CallInsertDataframe ==
    /\ db_call.fn = "none"
    /\ \E nrows \in RowCounts, fail_at \in 0..1 :
            /\ db_call' = [DbCall("insert_dataframe") EXCEPT !.nrows = nrows,
                                                             !.fail_at = fail_at]
            /\ DbApply(insert_dataframe(nrows, fail_at))

CallCreateTable ==
    /\ db_call.fn = "none"
    /\ \E columns \in StructureColumns, fail_at \in 0..1 :
            /\ db_call' = [DbCall("create_table") EXCEPT !.columns = columns,
                                                         !.fail_at = fail_at]
            /\ DbApply(create_table(columns, fail_at))

CallReadTable ==
    /\ db_call.fn = "none"
    /\ \E has_table_name \in BOOLEAN, has_query \in BOOLEAN, fail_at \in 0..1 :
            /\ db_call' = [DbCall("read_table") EXCEPT !.has_table_name = has_table_name,
                                                       !.has_query = has_query,
                                                       !.fail_at = fail_at]
            /\ DbApply(read_table(has_table_name, has_query, fail_at))

DbNext ==
    \/ CallUpdate
    \/ CallDelete
    \/ CallInsertDataframe
    \/ CallCreateTable
    \/ CallReadTable

(***************************************************************************)
(* The file helpers: one call of check_filepath, convert_xls_to_xlsx or    *)
(* autofit_win32com on a filesystem that holds some of data.xls, data.xlsx,*)
(* data.xlsbak, timestamped siblings of data.xlsx, renamed outputs         *)
(* data.xlsx.<ts>.del and the backup folder bak.                           *)
(***************************************************************************)

DataXls == <<"data", ".xls">>

DataXlsx == <<"data", ".xlsx">>

DataXlsbak == <<"data", ".xlsbak">>

\* the files a filesystem starts with; the content of a file tells the path
\* it was first seen at
InitialFiles(paths) == [p \in paths |-> Content("file", p)]

NoFileCall == [fn |-> "none"]

FileIdle ==
    /\ fs = <<>>
    /\ dirs = {}
    /\ now = 1
    /\ excel_log = <<>>
    /\ fs_call = NoFileCall
    /\ fs_ret = [raised |-> "pending"]

FileInit ==
    /\ \E base \in SUBSET {DataXls, DataXlsx, DataXlsbak},
          siblings \in SUBSET (1..MaxTime),
          dels \in SUBSET (1..MaxTime),
          bak \in {"absent", "empty", "backup"} :
          /\ fs = InitialFiles(
                    {Path(CWD, name) : name \in base}
                    \cup {Path(CWD, <<"data", "_", get_current_datetime(t), ".xlsx">>) :
                             t \in siblings}
                    \cup {Path(CWD, DataXlsx \o <<".", get_current_datetime(t), ".del">>) :
                             t \in dels}
                    \cup (IF bak = "backup" THEN {Path("cwd/bak", DataXlsbak)} ELSE {}))
          /\ dirs = IF bak = "absent" THEN {CWD} ELSE {CWD, "cwd/bak"}
    /\ now = 1
    /\ excel_log = <<>>
    /\ fs_call = NoFileCall
    /\ fs_ret = [raised |-> "pending"]

\* the call fn(args) ends with the effect eff; fail is the call to Excel that
\* raised
FileApply(fn, args, fail, eff) ==
    /\ fs_call = NoFileCall
    /\ eff.raised # "unbounded"
    /\ fs_call' = [fn |-> fn, args |-> args, fail |-> fail, before |-> fs, at |-> now]
    /\ fs' = eff.fs
    /\ dirs' = eff.dirs
    /\ now' = eff.now
    /\ excel_log' = eff.log
    /\ fs_ret' = [raised |-> eff.raised, output |-> eff.output, backup |-> eff.backup]
    /\ UNCHANGED <<pdVars, dtVars, dbVars, baseVars, createVars>>

\* check_filepath as an effect: it raises nothing and changes no file
CheckFilepathEffect(st, found) ==
    FileEffect([st EXCEPT !.now = found.now],
               IF found.found THEN "none" ELSE "unbounded", found.fp, NoBackup)

CallCheckFilepath ==
    \E fp \in {Path("", DataXlsx), Path(CWD, DataXlsx), Path(CWD, DataXls),
               Path("bak", DataXlsbak)} :
        FileApply("check_filepath", [fp |-> fp], "none",
                  CheckFilepathEffect(Machine(fs, dirs, now, excel_log),
                                      check_filepath(fs, now, fp)))

\* the calls to Excel that may raise
ExcelFailures == {"none", "Dispatch", "Open", "SaveAs", "Close"}

CallConvertXlsToXlsx ==
    \E input_file \in {Path("", DataXls), Path(CWD, DataXls), Path(CWD, DataXlsx)},
       input_file_treatment \in {Keep, <<"D", "e", "l", "e", "t", "e", " ">>,
                                 RenameExtension, <<"m", "o", "v", "e">>},
       replace_existing_output \in BOOLEAN,
       backup_folder \in {"None", "bak"},
       fail \in ExcelFailures :
        FileApply("convert_xls_to_xlsx",
                  [input_file |-> input_file,
                   input_file_treatment |-> input_file_treatment,
                   replace_existing_output |-> replace_existing_output,
                   backup_folder |-> backup_folder],
                  fail,
                  convert_xls_to_xlsx(Machine(fs, dirs, now, excel_log),
                      [input_file |-> input_file,
                       input_file_treatment |-> input_file_treatment,
                       replace_existing_output |-> replace_existing_output,
                       backup_folder |-> backup_folder],
                      fail))

CallAutofitWin32com ==
    \E excelfp \in {Path("", DataXlsx), Path(CWD, DataXlsx)},
       sheetnames \in {"None", "empty list", "list", "True", "str"},
       fail \in ExcelFailures :
        FileApply("autofit_win32com",
                  [excelfp |-> excelfp, sheetnames |-> sheetnames], fail,
                  autofit_win32com(Machine(fs, dirs, now, excel_log),
                                   excelfp, sheetnames, fail))

FileNext ==
    \/ CallCheckFilepath
    \/ CallConvertXlsToXlsx
    \/ CallAutofitWin32com

(***************************************************************************)
(* The folder conversion: one call of convert_xls_to_xlsx_for_folder on a  *)
(* folder that holds some of a.xls, b.xls, C.XLS, the temporary ~$a.xls,   *)
(* the output a.xlsx, the backup a.xlsbak and the folder bak with a.xls.   *)
(***************************************************************************)

FolderInit ==
    /\ \E names \in SUBSET {<<"a", ".xls">>, <<"b", ".xls">>, <<"C", ".XLS">>,
                            <<"~$a", ".xls">>, <<"a", ".xlsx">>, <<"a", ".xlsbak">>},
          bak \in {"absent", "empty", "a.xls"} :
          /\ fs = InitialFiles(
                    {Path(CWD, name) : name \in names}
                    \cup (IF bak = "a.xls" THEN {Path("cwd/bak", <<"a", ".xls">>)} ELSE {}))
          /\ dirs = IF bak = "absent" THEN {CWD} ELSE {CWD, "cwd/bak"}
    /\ now = 1
    /\ excel_log = <<>>
    /\ fs_call = NoFileCall
    /\ fs_ret = [raised |-> "pending"]

\* what goes wrong with Excel for one file of the folder
FolderFailures == {"none", "Dispatch", "SaveAs"}

\* the call ends with the effect eff
FolderApply(args, fails, eff) ==
    /\ fs_call = NoFileCall
    /\ eff.raised # "unbounded"
    /\ fs_call' = [fn |-> "convert_xls_to_xlsx_for_folder", args |-> args,
                   fail |-> fails, before |-> fs, at |-> now]
    /\ fs' = eff.fs
    /\ dirs' = eff.dirs
    /\ now' = eff.now
    /\ excel_log' = eff.log
    /\ fs_ret' = [raised |-> eff.raised, output_df |-> eff.output_df,
                  attempted |-> eff.attempted]
    /\ UNCHANGED <<pdVars, dtVars, dbVars, baseVars, createVars>>

CallConvertXlsToXlsxForFolder ==
    \E input_folder \in {CWD, "bak"},
       input_file_treatment \in {Keep, RenameExtension, <<"m", "o", "v", "e">>},
       replace_existing_output \in BOOLEAN,
       deep \in BOOLEAN :
        \E fails \in [1..Len(Sorted(get_filepaths_for_folder(
                                 fs, dirs, input_folder, {".xls"}, deep)))
                      -> FolderFailures] :
            FolderApply([input_folder |-> input_folder,
                         input_file_treatment |-> input_file_treatment,
                         replace_existing_output |-> replace_existing_output,
                         deep |-> deep],
                        fails,
                        convert_xls_to_xlsx_for_folder(
                            Machine(fs, dirs, now, excel_log),
                            [input_folder |-> input_folder,
                             input_file_treatment |-> input_file_treatment,
                             replace_existing_output |-> replace_existing_output,
                             deep |-> deep],
                            fails))

FolderNext == CallConvertXlsToXlsxForFolder

(***************************************************************************)
(* base: the inputs tried and the calls.                                   *)
(***************************************************************************)

\* the longest list handed to pretty_list
MaxItems == 5

\* the largest max_ends handed to pretty_list
MaxEnds == 2

\* the defaults of pretty_list
DefaultLinker == <<".", ".", ".">>
DefaultSep == <<",", " ">>
DefaultLast == <<"a", "n", "d">>

\* list(range(start, start + n))
RangeItems(start, n) == [k \in 1..n |-> IntCell(start + k - 1)]

\* the calls of pretty_list tried: range(n) and range(8, 8 + n) as they are
\* and as a list or a tuple, and ['one']
PrettyListCalls ==
    {[fn |-> "pretty_list",
      inputlist |-> [type |-> type, items |-> RangeItems(start, n)],
      max_ends |-> max_ends] :
        type \in {"list", "tuple", "range"}, start \in {0, 8},
        n \in 0..MaxItems, max_ends \in 0..MaxEnds}
    \cup {[fn |-> "pretty_list",
           inputlist |-> [type |-> "list", items |-> <<StrCell(<<"o", "n", "e">>)>>],
           max_ends |-> max_ends] : max_ends \in 0..MaxEnds}

\* the months and dates handed to compare_two_months
MonthArguments ==
    {MonthString(y, m) : y \in {2019, 2020}, m \in {1, 2, 12}}
    \cup {DateString(y, m, d) : y \in {2019, 2020}, m \in {1, 2, 12}, d \in {1, 15, 28}}
    \cup {NoDateText}

CompareTwoMonthsCalls ==
    {[fn |-> "compare_two_months", first_month |-> first, second_month |-> second] :
        first \in MonthArguments, second \in MonthArguments}

\* the longest data handed to assert_no_duplicates
MaxLen == 3

\* the data handed to assert_no_duplicates: lists and tuples of values,
\* Series and DataFrames with an index and as many values, and a dict
DuplicateData ==
    UNION {{[type |-> type, index |-> [k \in 1..n |-> IntCell(k - 1)], values |-> values] :
               type \in {"list", "tuple", "dict"},
               values \in [1..n -> {IntCell(1), IntCell(2), NaNCell}]} :
           n \in 0..MaxLen}
    \cup UNION {{[type |-> type, index |-> labels, values |-> values] :
                    type \in {"Series", "DataFrame"},
                    labels \in [1..n -> {IntCell(1), IntCell(2)}],
                    values \in [1..n -> {IntCell(1), IntCell(2), NaNCell}]} :
                n \in 0..MaxLen}

AssertNoDuplicatesCalls ==
    {[fn |-> "assert_no_duplicates", data |-> data, index |-> index, column |-> column] :
        data \in DuplicateData, index \in BOOLEAN, column \in {"None", "c"}}

BaseCalls == PrettyListCalls \cup CompareTwoMonthsCalls \cup AssertNoDuplicatesCalls

BaseIdle ==
    /\ base_call = [fn |-> "none"]
    /\ base_ret = [raised |-> "pending"]

BaseInit ==
    /\ base_call \in BaseCalls
    /\ base_ret = [raised |-> "pending"]

CallPrettyList ==
    /\ base_call.fn = "pretty_list"
    /\ base_ret.raised = "pending"
    /\ base_ret' = pretty_list(base_call.inputlist, base_call.max_ends,
                               DefaultLinker, DefaultSep, DefaultLast)
    /\ UNCHANGED base_call
    /\ UNCHANGED <<pdVars, dtVars, dbVars, fileVars, createVars>>

CallCompareTwoMonths ==
    /\ base_call.fn = "compare_two_months"
    /\ base_ret.raised = "pending"
    /\ base_ret' = compare_two_months(base_call.first_month, base_call.second_month)
    /\ UNCHANGED base_call
    /\ UNCHANGED <<pdVars, dtVars, dbVars, fileVars, createVars>>

CallAssertNoDuplicates ==
    /\ base_call.fn = "assert_no_duplicates"
    /\ base_ret.raised = "pending"
    /\ base_ret' = assert_no_duplicates(base_call.data, base_call.index, base_call.column)
    /\ UNCHANGED base_call
    /\ UNCHANGED <<pdVars, dtVars, dbVars, fileVars, createVars>>

BaseNext ==
    \/ CallPrettyList
    \/ CallCompareTwoMonths
    \/ CallAssertNoDuplicates

(***************************************************************************)
(* create_folder: the trees tried and the calls.                           *)
(***************************************************************************)

NoCreateCall == [fn |-> "none"]

CreateIdle ==
    /\ tree = Tree({}, {}, 0)
    /\ cf_call = NoCreateCall
    /\ cf_ret = [raised |-> "pending"]

Out == <<"out">>

\* the alternate names create_folder can derive from "out" at second t
Alternate1(t) == AlternatePath(<<Out>>, t)

Alternate2(t) == AlternatePath(Alternate1(t), t)

\* what can be at a path: nothing, a file, a folder, a folder with entries
FolderAt(path, what) == IF what \in {"absent", "file"} THEN {} ELSE {path}

FilesAt(path, what) ==
    IF what = "file" THEN {path}
    ELSE IF what \in {"content", "both"} THEN {path \o <<<<"f">>>>}
    ELSE {}

SubAt(path, what) ==
    IF what \in {"sub", "both"} THEN {path \o <<<<"sub">>>>} ELSE {}

\* A working directory in which "out" is absent, a file, or a folder that is
\* empty or holds a file, a subfolder or both, next to alternates of "out"
\* left by earlier calls.
CreateInit ==
    /\ \E t \in 1..MaxTime,
          out \in {"absent", "file", "empty", "content", "sub", "both"},
          alt1 \in [1..MaxTime -> {"absent", "empty", "content"}],
          alt2 \in {"absent", "empty", "content"} :
          tree = Tree(FolderAt(<<Out>>, out) \cup SubAt(<<Out>>, out)
                          \cup UNION {FolderAt(Alternate1(u), alt1[u]) :
                                          u \in 1..MaxTime}
                          \cup FolderAt(Alternate2(t), alt2),
                      FilesAt(<<Out>>, out)
                          \cup UNION {FilesAt(Alternate1(u), alt1[u]) :
                                          u \in 1..MaxTime}
                          \cup FilesAt(Alternate2(t), alt2),
                      t)
    /\ cf_call = NoCreateCall
    /\ cf_ret = [raised |-> "pending"]

\* the folder paths asked for: "", "out", "out/sub", "out/sub/leaf"
CreatePaths ==
    {<<>>, <<Out>>, <<Out, <<"sub">>>>, <<Out, <<"sub">>, <<"leaf">>>>}

\* the file paths asked for: "f", "out/f", "out/sub/f"
CreateFilepaths ==
    {<<<<"f">>>>, <<Out, <<"f">>>>, <<Out, <<"sub">>, <<"f">>>>}

CreateApply(fn, folderpath, alternate_if_exists, result) ==
    /\ cf_call' = [fn |-> fn, folderpath |-> folderpath,
                   alternate_if_exists |-> alternate_if_exists,
                   before |-> tree]
    /\ tree' = result.tree
    /\ cf_ret' = [raised |-> result.raised, value |-> result.value]
    /\ UNCHANGED <<pdVars, dtVars, dbVars, fileVars, baseVars>>

CallCreateFolder ==
    /\ cf_ret.raised = "pending"
    /\ \E folderpath \in CreatePaths, alternate_if_exists \in BOOLEAN :
          CreateApply("create_folder", folderpath, alternate_if_exists,
                      create_folder(tree, folderpath, alternate_if_exists))

CallCreateFolderForFilepath ==
    /\ cf_ret.raised = "pending"
    /\ \E filepath \in CreateFilepaths :
          CreateApply("create_folder_for_filepath", ParentPath(filepath), FALSE,
                      create_folder_for_filepath(tree, filepath))

CreateNext == CallCreateFolder \/ CallCreateFolderForFilepath

(***************************************************************************)
(* The specifications: one family runs, the others stay idle.              *)
(***************************************************************************)

InitTable == PdInit /\ DtIdle /\ DbIdle /\ FileIdle /\ BaseIdle /\ CreateIdle

NextTable == PdNext

SpecTable == InitTable /\ [][NextTable]_vars

InitDate == DtInit /\ PdIdle /\ DbIdle /\ FileIdle /\ BaseIdle /\ CreateIdle

NextDate == CallEnsureCorrectDateFormat

SpecDate == InitDate /\ [][NextDate]_vars

InitDb == DbInit /\ PdIdle /\ DtIdle /\ FileIdle /\ BaseIdle /\ CreateIdle

NextDb == DbNext

SpecDb == InitDb /\ [][NextDb]_vars

InitFile == FileInit /\ PdIdle /\ DtIdle /\ DbIdle /\ BaseIdle /\ CreateIdle

NextFile == FileNext

SpecFile == InitFile /\ [][NextFile]_vars

InitFolder == FolderInit /\ PdIdle /\ DtIdle /\ DbIdle /\ BaseIdle /\ CreateIdle

NextFolder == FolderNext

SpecFolder == InitFolder /\ [][NextFolder]_vars

InitBase == BaseInit /\ PdIdle /\ DtIdle /\ DbIdle /\ FileIdle /\ CreateIdle

NextBase == BaseNext

SpecBase == InitBase /\ [][NextBase]_vars

InitCreate ==
    CreateInit /\ PdIdle /\ DtIdle /\ DbIdle /\ FileIdle /\ BaseIdle

NextCreate == CreateNext

SpecCreate == InitCreate /\ [][NextCreate]_vars

(***************************************************************************)
(* Claims about header-row inference (checked under SpecTable).            *)
(***************************************************************************)

\* the rows (1-based) of df0 whose cell values include every expected value
MatchingRows ==
    {i \in DOMAIN df0 : SetOf(pd_call.expected) \subseteq SetOf(df0[i])}

\* C3: get_main_table_from_df raises an Exception, and returns no table,
\* whenever no row of df0 contains every value of expected_header_columns.
C3_RaisesWhenHeaderAbsent ==
    (pd_call.fn = "get_main_table_from_df" /\ MatchingRows = {})
        => (pd_ret.raised = "Exception" /\ pd_ret.columns = <<>> /\ pd_ret.rows = <<>>)

\* a grid in which a row holds one expected value but none holds both
C3_Witness ==
    /\ pd_call.fn = "get_main_table_from_df"
    /\ pd_call.expected = <<"a", "b">>
    /\ Len(df0) = MaxRows
    /\ \E i \in DOMAIN df0 : "a" \in SetOf(df0[i])
    /\ MatchingRows = {}
    /\ pd_ret.raised = "Exception"

\* the label (return_index) or 0-based position reported for row i
RowLabel(i) == IF pd_call.return_index THEN df0_index[i] ELSE i - 1

\* C4: get_expected_data_row_locations returns, in ascending row order,
\* exactly the matching rows of df0 (none else, none omitted), as index labels
\* when return_index is True and as integer positions when it is False; with
\* no matching row at all it raises instead of returning.
C4_LocationsExact ==
    pd_call.fn = "get_expected_data_row_locations" =>
        IF MatchingRows = {}
        THEN pd_ret.raised = "Exception"
        ELSE /\ pd_ret.raised = "none"
             /\ Len(pd_ret.value) = Cardinality(MatchingRows)
             /\ \A i \in MatchingRows :
                    pd_ret.value[Cardinality({m \in MatchingRows : m < i}) + 1]
                        = RowLabel(i)

\* labels returned in row order although the labels themselves descend, with a
\* non-matching row in between
C4_Witness ==
    /\ pd_call.fn = "get_expected_data_row_locations"
    /\ pd_call.return_index
    /\ pd_ret.raised = "none"
    /\ Len(pd_ret.value) = 2
    /\ pd_ret.value[1] > pd_ret.value[2]
    /\ Cardinality(MatchingRows) < Len(df0)

\* the first matching row (1-based), the header
FirstMatch == CHOOSE h \in MatchingRows : \A m \in MatchingRows : h <= m

\* row p (1-based) survives the null filter
SurvivesDrop(p) ==
    \/ ~pd_call.drop_null
    \/ \E j \in GridColumns :
          df0[FirstMatch][j] \in SetOf(pd_call.expected) /\ df0[p][j] # Null

\* C5: get_main_table_from_df takes the first row holding all expected header
\* columns as the header; the result is the rows strictly after it, in their
\* original order, under that row's values as column names; rows whose expected
\* columns are all null are dropped when drop_null_rows_for_header_columns is
\* True; only expected columns are kept when
\* return_only_expected_header_columns is True.
C5_MainTable ==
    (pd_call.fn = "get_main_table_from_df" /\ MatchingRows # {}) =>
        LET rows == pd_ret.rows
            kept == {p \in (FirstMatch + 1)..Len(df0) : SurvivesDrop(p)}
        IN  /\ pd_ret.raised = "none"
            /\ {rows[n].iloc + 1 : n \in DOMAIN rows} = kept
            /\ \A n \in DOMAIN rows : \A m \in DOMAIN rows :
                   n < m => rows[n].iloc < rows[m].iloc
            /\ IF pd_call.return_only
               THEN /\ SetOf(pd_ret.columns) = SetOf(pd_call.expected)
                    /\ \A k \in DOMAIN pd_ret.columns : \E j \in GridColumns :
                          /\ df0[FirstMatch][j] = pd_ret.columns[k]
                          /\ \A n \in DOMAIN rows :
                                rows[n].cells[k] = df0[rows[n].iloc + 1][j]
               ELSE /\ pd_ret.columns = df0[FirstMatch]
                    /\ \A n \in DOMAIN rows :
                          rows[n].cells = df0[rows[n].iloc + 1]

\* header in row 0, row 1 dropped for its null expected column, row 2 kept,
\* one of two columns selected
C5_Witness ==
    /\ pd_call.fn = "get_main_table_from_df"
    /\ pd_call.return_only /\ pd_call.drop_null
    /\ pd_call.expected = <<"a">>
    /\ Len(df0) = 3
    /\ FirstMatch = 1
    /\ Len(pd_ret.rows) = 1
    /\ pd_ret.rows[1].iloc = 2
    /\ Len(pd_ret.columns) = 1

(***************************************************************************)
(* Claims about date-format validation (checked under SpecDate).           *)
(***************************************************************************)

\* the three fields of a date string, read at its two delimiters
FieldsOf(s) ==
    LET cuts == {p \in DOMAIN s : IsDelimiter(s[p])}
        c1 == CHOOSE p \in cuts : \A q \in cuts : p <= q
        c2 == CHOOSE p \in cuts : \A q \in cuts : p >= q
    IN  <<SubSeq(s, 1, c1 - 1), SubSeq(s, c1 + 1, c2 - 1), SubSeq(s, c2 + 1, Len(s))>>

\* the number a day or year field stands for (-1: not a number)
FieldNumber(f) == IF IsDigitString(f) THEN DigitsValue(f) ELSE -1

\* the month a month field stands for: 1 to 12, Jan to Dec or January to
\* December (-1: none of these)
MonthNumber(f) ==
    IF IsDigitString(f) THEN DigitsValue(f)
    ELSE IF Title(f) \in SetOf(MONTH_ABBR)
    THEN CHOOSE i \in DOMAIN MONTH_ABBR : MONTH_ABBR[i] = Title(f)
    ELSE IF Title(f) \in SetOf(MONTH_NAME)
    THEN CHOOSE i \in DOMAIN MONTH_NAME : MONTH_NAME[i] = Title(f)
    ELSE -1

\* the value has its day in 1..31, its month in 1..12 and its year in 0..9999
\* under the ordering fmt
ValueInRange(s, fmt) ==
    LET r == RenameColumns(FieldsOf(s), fmt)
    IN  /\ FieldNumber(r.day) \in 1..31
        /\ MonthNumber(r.mth) \in 1..12
        /\ FieldNumber(r.yr) \in 0..9999

SomeValueOutOfRange ==
    \E k \in DOMAIN date_series :
        date_series[k] # None /\ ~ValueInRange(date_series[k], date_format)

\* C2: for an object-typed series and date_format in {dmy, mdy, ymd},
\* ensure_correct_date_format raises if some non-null value has a day outside
\* 1..31, a month outside 1..12 or a year outside 0..9999 under that ordering,
\* and returns without raising when every non-null value lies inside.
C2_RaisesIffOutOfRange ==
    dt_ret # "pending" => (dt_ret # "none" <=> SomeValueOutOfRange)

(***************************************************************************)
(* Claims about the database client (checked under SpecDb).                *)
(***************************************************************************)

\* the executions and the messages of the call made
NewSent == SubSeq(db_sent, db_call.sent_before + 1, Len(db_sent))
NewLog == SubSeq(db_log, db_call.log_before + 1, Len(db_log))

\* the arguments of the call made are ones the method must reject
ArgumentsRejected ==
    \/ /\ db_call.fn = "update"
       /\ \/ ~db_call.id_cols.is_list
          \/ \E c \in SetOf(db_call.id_cols.cols) : c \notin db_call.columns
    \/ /\ db_call.fn = "delete"
       /\ \/ db_call.id_cols.cols = <<>>
          \/ \E c \in SetOf(db_call.id_cols.cols) : c \notin db_call.columns
    \/ /\ db_call.fn = "create_table"
       /\ ("COLUMN" \notin db_call.columns \/ "TYPE" \notin db_call.columns)
    \/ /\ db_call.fn = "read_table"
       /\ db_call.has_table_name = db_call.has_query

C7_RejectedBeforeExecution ==
    ArgumentsRejected =>
        /\ db_ret = "Exception"
        /\ Len(db_sent) = db_call.sent_before

\* a delete without identifier columns on a connection that served a query
C7_Witness ==
    /\ db_call.fn = "delete"
    /\ db_call.id_cols.cols = <<>>
    /\ db_call.sent_before = 1
    /\ db_ret = "Exception"
    /\ Len(db_sent) = 1

(***************************************************************************)
(* base.py check_filepath and excellib/file_formats.py, width_methods.py.  *)
(***************************************************************************)

\* the names check_filepath can build for fp: file_name + "_" + timestamp +
\* file_ext, in the folder of fp
TimestampedSiblings(fp) ==
    {Path(IF fp.dir = "" THEN CWD ELSE fp.dir,
          splitext(fp.name).root \o <<"_", TimeStamps[t]>> \o splitext(fp.name).ext) :
        t \in DOMAIN TimeStamps}

\* C1: the path check_filepath(fp) returns does not exist when it is
\* returned; it is fp when fp does not exist, else a timestamp-suffixed
\* sibling of fp
C1_ReturnedPathAbsent ==
    fs_call.fn = "check_filepath" =>
        /\ ~path_exists(fs, fs_ret.output)
        /\ IF path_exists(fs_call.before, fs_call.args.fp)
           THEN fs_ret.output \in TimestampedSiblings(fs_call.args.fp)
           ELSE fs_ret.output = fs_call.args.fp

\* fp existed, and so did its sibling with the timestamp of the call: the
\* path returned carries a later timestamp
C1_Witness ==
    /\ fs_call.fn = "check_filepath"
    /\ path_exists(fs_call.before, fs_call.args.fp)
    /\ now > fs_call.at

\* C8: a call that started the spreadsheet application ends with that
\* instance quit, and quit once, whether the work on the file succeeded or
\* failed
C8_ExcelQuitBeforeEnd ==
    (fs_call.fn \in {"convert_xls_to_xlsx", "autofit_win32com"}
        /\ "Dispatch" \in SetOf(excel_log))
    => /\ excel_log[Len(excel_log)] = "Quit"
       /\ Cardinality({k \in DOMAIN excel_log : excel_log[k] = "Quit"}) = 1

\* the backup file of a conversion that renames the input's extension
BackupFileOf(args) ==
    Path(IF args.backup_folder = "None" THEN AbsDir(args.input_file.dir)
         ELSE args.backup_folder,
         splitext(args.input_file.name).root \o <<".xlsbak">>)

\* the treatment asked for is one of keep, delete, rename_extension
TreatmentValid(args) ==
    Strip(Lower(args.input_file_treatment)) \in {Keep, Delete, RenameExtension}

\* C9: convert_xls_to_xlsx raises NotImplementedError for a treatment that is
\* none of keep, delete, rename_extension; FileNotFoundError for an input
\* file that does not exist; ValueError for an input that is not an .xls
\* file; FileExistsError when the backup file already exists
C9_DocumentedErrors ==
    fs_call.fn = "convert_xls_to_xlsx" =>
        /\ ~TreatmentValid(fs_call.args) => fs_ret.raised = "NotImplementedError"
        /\ (TreatmentValid(fs_call.args)
               /\ ~path_exists(fs_call.before, fs_call.args.input_file))
           => fs_ret.raised = "FileNotFoundError"
        /\ (TreatmentValid(fs_call.args)
               /\ path_exists(fs_call.before, fs_call.args.input_file)
               /\ ~EndsWithXls(fs_call.args.input_file))
           => fs_ret.raised = "ValueError"
        /\ (Strip(Lower(fs_call.args.input_file_treatment)) = RenameExtension
               /\ path_exists(fs_call.before, fs_call.args.input_file)
               /\ EndsWithXls(fs_call.args.input_file)
               /\ path_exists(fs_call.before, BackupFileOf(fs_call.args))
               /\ fs_call.fail = "none")
           => fs_ret.raised = "FileExistsError"

\* the output location of a conversion: the input path with .xlsx for .xls
OutputLocation(args) ==
    Path(AbsDir(args.input_file.dir),
         SubSeq(args.input_file.name, 1, Len(args.input_file.name) - 1) \o <<".xlsx">>)

\* where replace_existing_output = True moves the old output:
\* <output>.<timestamp of the call>.del
DelLocation(args, at) ==
    Path(AbsDir(args.input_file.dir),
         SubSeq(args.input_file.name, 1, Len(args.input_file.name) - 1)
             \o <<".xlsx", ".", TimeStamps[at], ".del">>)

\* path holds the content old
Holds(files, path, old) == path \in DOMAIN files /\ files[path] = old

\* the kept output: the old file is where it was, and a workbook that was
\* written went to a path that did not exist
KeptUntouched(out) ==
    /\ Holds(fs, out, fs_call.before[out])
    /\ fs_ret.raised = "none" =>
           /\ abspath(fs_ret.output) \notin DOMAIN fs_call.before
           /\ abspath(fs_ret.output) \in DOMAIN fs
           /\ fs[abspath(fs_ret.output)].kind = "workbook"

\* the replaced output: the old file is at the .del path, which was free, and
\* a workbook that was written is at the output path; a call that ended
\* before the renaming left the old file where it was
RenamedAside(out, del) ==
    IF fs_ret.raised \in {"Exception", "FileNotFoundError", "ValueError",
                          "FileExistsError"}
    THEN Holds(fs, out, fs_call.before[out])
    ELSE /\ Holds(fs, del, fs_call.before[out])
         /\ del \notin DOMAIN fs_call.before
         /\ fs_ret.raised = "none" =>
                /\ fs_ret.output = out
                /\ Holds(fs, out, Content("workbook", abspath(fs_call.args.input_file)))

\* C10: convert_xls_to_xlsx never destroys an .xlsx that is at the output
\* location: without replace_existing_output the new workbook goes to a path
\* that did not exist and the old file is untouched; with it the old file is
\* renamed to <output>.<timestamp>.del and the new workbook is at the output
\* path
C10_ExistingOutputPreserved ==
    (fs_call.fn = "convert_xls_to_xlsx"
        /\ EndsWithXls(fs_call.args.input_file)
        /\ OutputLocation(fs_call.args) \in DOMAIN fs_call.before)
    => IF fs_call.args.replace_existing_output
       THEN RenamedAside(OutputLocation(fs_call.args),
                         DelLocation(fs_call.args, fs_call.at))
       ELSE KeptUntouched(OutputLocation(fs_call.args))

\* an output that existed was replaced by a conversion that returned
C10_Witness ==
    /\ fs_call.fn = "convert_xls_to_xlsx"
    /\ EndsWithXls(fs_call.args.input_file)
    /\ OutputLocation(fs_call.args) \in DOMAIN fs_call.before
    /\ fs_call.args.replace_existing_output
    /\ fs_ret.raised = "none"

\* the input file of the call is where it was, with the content it had
InputFileInPlace ==
    Holds(fs, abspath(fs_call.args.input_file),
          fs_call.before[abspath(fs_call.args.input_file)])

\* C11: convert_xls_to_xlsx deletes or renames the original .xls only after
\* the workbook was saved and closed: when opening or saving fails, or when
\* the backup file already exists, the input file is still at its path when
\* the call ends; an input file that is gone means the call returned
C11_InputKeptUntilSaved ==
    (fs_call.fn = "convert_xls_to_xlsx"
        /\ path_exists(fs_call.before, fs_call.args.input_file))
    => /\ (fs_call.fail \in {"Open", "SaveAs"}
              \/ (Strip(Lower(fs_call.args.input_file_treatment)) = RenameExtension
                     /\ path_exists(fs_call.before, BackupFileOf(fs_call.args))))
          => InputFileInPlace
       /\ ~InputFileInPlace
          => /\ fs_ret.raised = "none"
             /\ Holds(fs, abspath(fs_ret.output),
                      Content("workbook", abspath(fs_call.args.input_file)))

\* the workbook was saved and closed, the backup file was already there: the
\* call raised
C11_Witness ==
    /\ fs_call.fn = "convert_xls_to_xlsx"
    /\ EndsWithXls(fs_call.args.input_file)
    /\ path_exists(fs_call.before, fs_call.args.input_file)
    /\ Strip(Lower(fs_call.args.input_file_treatment)) = RenameExtension
    /\ path_exists(fs_call.before, BackupFileOf(fs_call.args))
    /\ fs_call.fail = "none"
    /\ fs_ret.raised = "RuntimeError"
    /\ "Close" \in SetOf(excel_log)

(***************************************************************************)
(* Claims about the conversion of a folder (checked under SpecFolder).     *)
(***************************************************************************)

\* the .xls files of the folder of the call, in the order they are taken
FilesFound ==
    Sorted(get_filepaths_for_folder(fs_call.before, dirs,
                                    fs_call.args.input_folder, {".xls"},
                                    fs_call.args.deep))

\* C12: convert_xls_to_xlsx_for_folder attempts each .xls file found exactly
\* once, goes on with the remaining files after an error on one file, and
\* returns a table with an Output entry exactly for the files whose
\* conversion succeeded
C12_EveryFileAttempted ==
    (fs_call.fn = "convert_xls_to_xlsx_for_folder"
        /\ AbsDir(fs_call.args.input_folder) \in dirs
        /\ Len(FilesFound) > 0)
    => /\ fs_ret.raised = "none"
       /\ [k \in DOMAIN fs_ret.attempted |-> fs_ret.attempted[k].input_file]
              = FilesFound
       /\ \A k \in DOMAIN fs_ret.attempted :
              fs_ret.output_df[fs_ret.attempted[k].input_file].set
                  <=> fs_ret.attempted[k].raised = "none"

(***************************************************************************)
(* Claims about the helpers of base.py and base_datetime.py (checked under *)
(* SpecBase).                                                              *)
(***************************************************************************)

\* the items pretty_list names for n items: the first max_ends, the linker
\* and the last max_ends when n > 2 * max_ends, else all of them
ItemsNamed(items, max_ends) ==
    IF Len(items) > 2 * max_ends
    THEN [k \in 1..(2 * max_ends + 1) |->
             IF k <= max_ends THEN Str(items[k])
             ELSE IF k = max_ends + 1 THEN DefaultLinker
             ELSE Str(items[Len(items) - (2 * max_ends + 1 - k)])]
    ELSE [k \in DOMAIN items |-> Str(items[k])]

RECURSIVE JoinedWithLast(_)
\* names joined by ", " with "and" before the last one
JoinedWithLast(names) ==
    IF Len(names) = 0 THEN <<>>
    ELSE IF Len(names) = 1 THEN names[1]
    ELSE IF Len(names) = 2 THEN names[1] \o <<" ">> \o DefaultLast \o <<" ">> \o names[2]
    ELSE names[1] \o DefaultSep \o JoinedWithLast(Tail(names))

\* C13: pretty_list returns the first max_ends items, the linker and the
\* last max_ends items of a sequence of more than 2 * max_ends items, and
\* all items otherwise, joined by sep with last before the final item;
\* range(n) is such a sequence, and an empty input gives ''
C13_PrettyList ==
    (base_call.fn = "pretty_list" /\ base_ret.raised # "pending"
        /\ base_call.max_ends >= 1)
    => base_ret = Returned(JoinedWithLast(ItemsNamed(base_call.inputlist.items,
                                                     base_call.max_ends)))

\* the month of an argument, counted in months
MonthOf(s) == s.y * 12 + s.m

\* C14: compare_two_months(first, second) returns -1 when first's month is
\* earlier than second's, 0 when the two are the same month, 1 when first's
\* month is later, for parseable dates and month strings
C14_CompareMonths ==
    (base_call.fn = "compare_two_months" /\ base_ret.raised # "pending"
        /\ base_call.first_month.kind # "text"
        /\ base_call.second_month.kind # "text")
    => base_ret =
           Returned(IF MonthOf(base_call.first_month) < MonthOf(base_call.second_month)
                    THEN -1
                    ELSE IF MonthOf(base_call.first_month) = MonthOf(base_call.second_month)
                    THEN 0
                    ELSE 1)

\* the values the call is asked to check: the index, or the values
ValuesChecked(call) ==
    IF call.data.type \in {"Series", "DataFrame"} /\ call.index
    THEN call.data.index
    ELSE call.data.values

\* a supported input with the arguments that go with it
SupportedInput(call) ==
    \/ call.data.type \in {"list", "tuple"} /\ ~call.index /\ call.column = "None"
    \/ call.data.type = "Series" /\ call.column = "None"
    \/ call.data.type = "DataFrame" /\ call.index /\ call.column = "None"
    \/ call.data.type = "DataFrame" /\ ~call.index /\ call.column = "c"

\* C15: assert_no_duplicates raises an Exception when some value occurs more
\* than once and returns without raising when all values are distinct, for a
\* list or tuple, a Series by values or by index, a DataFrame by index or by
\* a column
C15_RaisesIffDuplicates ==
    (base_call.fn = "assert_no_duplicates" /\ base_ret.raised # "pending"
        /\ SupportedInput(base_call))
    => (base_ret.raised # "none"
        <=> \E i, j \in DOMAIN ValuesChecked(base_call) :
               i # j /\ ValuesChecked(base_call)[i] = ValuesChecked(base_call)[j])

(***************************************************************************)
(* create_folder.                                                          *)
(***************************************************************************)

\* a call of create_folder or create_folder_for_filepath has returned
FolderReturned == cf_call # NoCreateCall /\ cf_ret.raised = "none"

\* the path and every ancestor of it on the way from the working directory
\* is a folder of the tree
FolderWithAncestors(state, path) ==
    /\ Len(path) >= 1
    /\ \A k \in 1..Len(path) : SubSeq(path, 1, k) \in state.folders

\* nothing that was there before the call is gone
NothingLost ==
    /\ cf_call.before.folders \subseteq tree.folders
    /\ cf_call.before.files = tree.files

\* C16: after create_folder returns, the returned path is a folder and so is
\* every ancestor on the way to it; with alternate_if_exists = False the
\* returned path is folderpath itself and a folder that was already there is
\* left as it was.
C16_ReturnedFolderExists ==
    FolderReturned =>
        /\ FolderWithAncestors(tree, cf_ret.value)
        /\ NothingLost
        /\ ~cf_call.alternate_if_exists =>
               /\ cf_ret.value = cf_call.folderpath
               /\ cf_call.folderpath \in cf_call.before.folders =>
                      tree = cf_call.before

\* the call asked for an alternate of a folder that holds something
AlternateCase ==
    /\ FolderReturned
    /\ cf_call.alternate_if_exists
    /\ cf_call.folderpath \in cf_call.before.folders
    /\ HasContent(cf_call.before, cf_call.folderpath)

\* C17: with alternate_if_exists = True and folderpath a folder that is not
\* empty, the folder folderpath + "_" + timestamp is there and is what
\* create_folder returns; whatever the tree, the returned folder is not one
\* that held something before the call.
C17_AlternateIsFresh ==
    /\ AlternateCase =>
           /\ cf_ret.value = AlternatePath(cf_call.folderpath, cf_call.before.now)
           /\ cf_ret.value \in tree.folders
    /\ (FolderReturned /\ cf_call.alternate_if_exists) =>
           ~(/\ cf_ret.value \in cf_call.before.folders
             /\ HasContent(cf_call.before, cf_ret.value))

====
